---------------------------- MODULE Spec2Model ----------------------------
(***************************************************************************)
(* complete-command: an interactive helper that assembles shell commands.  *)
(* This module models                                                      *)
(*   - the shell-integration installer (internal/integration),             *)
(*   - the preference store (internal/config),                             *)
(*   - the palette, the action form and the fallback search form           *)
(*     (internal/ui) as driven by main.                                    *)
(***************************************************************************)
EXTENDS Integers, Sequences, FiniteSets, TLC

(***************************************************************************)
(* Bounds of the model.                                                    *)
(***************************************************************************)
\* longest initial rc file, in tokens
MaxLen == 3
\* most installer invocations in one behaviour
MaxOps == 4

(***************************************************************************)
(* The shell rc file.  Its content is a sequence of tokens: NL is one      *)
(* "\n" byte, BEGIN and END are the two marker strings (each found by      *)
(* strings.Index as a whole), "s" is the shell-specific body of the        *)
(* snippet, and "a", "b" are bytes of the user's own text.                 *)
(***************************************************************************)
NL == "\n"
beginMarker == "# BEGIN complete-command integration"
endMarker == "# END complete-command integration"
UserBytes == {"a", "b"}
Alphabet == UserBytes \cup {NL, beginMarker, endMarker}

RECURSIVE SeqsUpTo(_, _)
SeqsUpTo(S, n) ==
    IF n = 0 THEN {<<>>}
    ELSE LET shorter == SeqsUpTo(S, n - 1)
         IN  shorter \cup {Append(s, x) : s \in {t \in shorter : Len(t) = n - 1}, x \in S}

\* strings.Index for a one-token needle: 1-based position, 0 when absent (Go: -1)
Index(content, tok) ==
    IF \E i \in 1..Len(content) : content[i] = tok
    THEN CHOOSE i \in 1..Len(content) :
            /\ content[i] = tok
            /\ \A j \in 1..(i - 1) : content[j] # tok
    ELSE 0

\* strings.TrimRight(s, "\n")
RECURSIVE TrimRight(_)
TrimRight(s) ==
    IF Len(s) > 0 /\ s[Len(s)] = NL THEN TrimRight(SubSeq(s, 1, Len(s) - 1)) ELSE s

\* strings.TrimLeft(s, "\n")
RECURSIVE TrimLeft(_)
TrimLeft(s) ==
    IF Len(s) > 0 /\ s[1] = NL THEN TrimLeft(Tail(s)) ELSE s

\* strings.TrimPrefix(s, "\n"): at most one leading newline
TrimPrefix(s) ==
    IF Len(s) > 0 /\ s[1] = NL THEN Tail(s) ELSE s

\* the snippet fmt.Sprintf builds: marker, body, marker, each ended by a newline
integrationSnippet == <<beginMarker, NL, "s", NL, endMarker, NL>>

msgRemoved == "Shell integration removed. Reload your shell for changes to take effect."
msgNotInstalled == "Shell integration is not installed."
msgInstalled == "Shell integration installed. Reload your shell for changes to take effect."

\* the uninstall branch: the content with the region beginIdx..endIdx cut out
RemoveRegionDropsMarkerOnly(content, beginIdx, endIdx) ==
    LET before == SubSeq(content, 1, beginIdx - 1)
        after == TrimPrefix(SubSeq(content, endIdx, Len(content)))
    IN  TrimRight(before) \o <<NL>> \o TrimLeft(after)

RemoveRegionDropsBefore(content, beginIdx, endIdx) ==
    LET after == TrimPrefix(SubSeq(content, endIdx + 1, Len(content)))
    IN  <<NL>> \o TrimLeft(after)

RemoveRegion(content, beginIdx, endIdx) ==
    LET before == SubSeq(content, 1, beginIdx - 1)
        after == TrimPrefix(SubSeq(content, endIdx + 1, Len(content)))
    IN  TrimRight(before) \o <<NL>> \o TrimLeft(after)

\* the install branch: the snippet appended after the trimmed content
AppendSnippet(content) ==
    (IF Len(content) > 0 THEN TrimRight(content) \o <<NL>> ELSE <<>>)
        \o integrationSnippet \o <<NL>>

\* install is "nil" (toggle), "true" or "false", the *bool of the source
ToggleShellIntegration(content, install) ==
    LET beginIdx == Index(content, beginMarker)
        endIdx == Index(content, endMarker)
    IN  IF beginIdx > 0 /\ endIdx > beginIdx /\ install \in {"nil", "false"}
        THEN [content |-> RemoveRegion(content, beginIdx, endIdx),
              msg |-> msgRemoved, wrote |-> TRUE]
        ELSE IF install = "false"
        THEN [content |-> content, msg |-> msgNotInstalled, wrote |-> FALSE]
        ELSE [content |-> AppendSnippet(content), msg |-> msgInstalled, wrote |-> TRUE]

(***************************************************************************)
(* The preference store (internal/config).  The file is absent, empty      *)
(* (zero bytes), garbage (bytes that are no JSON object of the expected    *)
(* shape) or a JSON object whose "preferences" member lists the pairs      *)
(* <<actionId, tool>> in the order they stand in the text.                 *)
(***************************************************************************)
\* action ids and tool names a preference file may mention, in byte order
PrefIds == <<"archive", "search">>
PrefTools == {"grep", "rg"}
\* most members of an initial (hand-written) preference file
MaxMembers == 2

Range(f) == {f[x] : x \in DOMAIN f}

AbsentFile == [kind |-> "absent", members |-> <<>>]
EmptyFile == [kind |-> "empty", members |-> <<>>]
GarbageFile == [kind |-> "garbage", members |-> <<>>]
JsonFile(members) == [kind |-> "json", members |-> members]

EmptyMap == <<>>
NilConfig == [nil |-> TRUE, Preferences |-> EmptyMap]
Config(prefs) == [nil |-> FALSE, Preferences |-> prefs]

\* m with m[k] = v (a Go map assignment)
MapSet(m, k, v) == [x \in (DOMAIN m) \cup {k} |-> IF x = k THEN v ELSE m[x]]

\* json.Unmarshal into map[string]string: members in text order, the last
\* one of a repeated key staying
RECURSIVE Unmarshal(_)
Unmarshal(members) ==
    IF members = <<>> THEN EmptyMap
    ELSE LET n == Len(members)
         IN  MapSet(Unmarshal(SubSeq(members, 1, n - 1)), members[n][1], members[n][2])

\* json.MarshalIndent of the map: one member per key, keys in sorted order
RECURSIVE MarshalFrom(_, _)
MarshalFrom(prefs, i) ==
    IF i > Len(PrefIds) THEN <<>>
    ELSE (IF PrefIds[i] \in DOMAIN prefs THEN <<<<PrefIds[i], prefs[PrefIds[i]]>>>> ELSE <<>>)
            \o MarshalFrom(prefs, i + 1)

MarshalIndentKeepsFirstOnly(prefs) ==
    LET all == MarshalFrom(prefs, 1) IN SubSeq(all, 1, IF Len(all) > 0 THEN 1 ELSE 0)

MarshalIndent(prefs) == MarshalFrom(prefs, 1)

LoadTreatsMalformedAsEmpty(file) ==
    IF file.kind = "json"
    THEN [cfg |-> Config(Unmarshal(file.members)), err |-> FALSE]
    ELSE [cfg |-> Config(EmptyMap), err |-> FALSE]

\* Load: the store read from the file, or the error
Load(file) ==
    IF file.kind = "absent" THEN [cfg |-> Config(EmptyMap), err |-> FALSE]
    ELSE IF file.kind = "json"
    THEN [cfg |-> Config(Unmarshal(file.members)), err |-> FALSE]
    ELSE [cfg |-> NilConfig, err |-> TRUE]

\* os.WriteFile is open(O_WRONLY|O_CREATE|O_TRUNC), write, close: the file
\* after the open, and the file after the write
WriteFileOpened(file) == EmptyFile
WriteFileWritten(c) == JsonFile(MarshalIndent(c.Preferences))

\* Save as one step, and whether the write went through (ok = FALSE: the
\* open failed, nothing was written)
Save(c, file, ok) == IF ok THEN WriteFileWritten(c) ELSE file

SetPreferenceIgnoresTool(c, actionID, tool) == c

SetPreference(c, actionID, tool) ==
    Config(MapSet(c.Preferences, actionID, tool))

PreferredTool(c, actionID) ==
    IF actionID \in DOMAIN c.Preferences
    THEN <<c.Preferences[actionID], TRUE>>
    ELSE <<"", FALSE>>

PrefPairs == {<<PrefIds[i], t>> : i \in 1..Len(PrefIds), t \in PrefTools}
\* the preference files a run may find
PrefFiles ==
    {AbsentFile, EmptyFile, GarbageFile}
        \cup {JsonFile(m) : m \in SeqsUpTo(PrefPairs, MaxMembers)}

(***************************************************************************)
(* The catalogue and the forms.  A registry.Field has optional Default,    *)
(* Min and Max: a one-element sequence holds the value, the empty sequence *)
(* is nil.  A float is counted in hundredths, so that 1.0 and 0.1 and a    *)
(* bound such as 0.25 are all exact.                                       *)
(***************************************************************************)
MaxKeys == 5         \* most key events delivered to the forms in one behaviour
MaxRuns == 2         \* most runs of the program in one behaviour
MaxNamedRuns == 1    \* the first runs of a behaviour, which alone may be
                     \* started with an action name on the command line
FloatOne == 100      \* the 1.0 a '+' adds to a float field
FloatTenth == 10     \* the 0.1 a '-' takes from a float field

Field(key, type, default, choices, min, max) ==
    [Key |-> key, Type |-> type, Default |-> default, Choices |-> choices,
     Min |-> min, Max |-> max]

Action(id, title, synonyms, candidates, template, fields) ==
    [ID |-> id, Title |-> title, Synonyms |-> synonyms, Candidates |-> candidates,
     Template |-> template, Fields |-> fields]

NoAction == Action("", "", <<>>, <<>>, <<>>, <<>>)

\* a catalogue as registry.Parse accepts it: Parse validates nothing, so an
\* action may have an empty ID, a candidate without a template and no
\* template at all.  A Template map is the sequence of its <<tool, text>>
\* entries, the text in the tokens of buildCommand.
Registry ==
    << Action("search", "Search", <<"find">>, <<"rg", "grep">>,
              << <<"rg", <<"rg", " ", "{{", "i", "?", "-i", "}}", " ",
                           "{{", "ctx", "|", "-C", " ", "%d", "}}", " ",
                           "{{", "q", "}}">> >> >>,
              << Field("q", "string", <<>>, <<>>, <<>>, <<>>),
                 Field("i", "bool", <<>>, <<>>, <<>>, <<>>),
                 Field("ctx", "int", <<0>>, <<>>, <<>>, <<2>>) >>),
       Action("archive", "Pack", <<"find", "tar">>, <<"grep", "rg">>, <<>>,
              << Field("n", "int", <<0>>, <<>>, <<-1>>, <<1>>),
                 Field("lvl", "float", <<30>>, <<>>, <<25>>, <<150>>),
                 Field("mode", "enum", <<"b">>, <<"a", "b">>, <<>>, <<>>) >>),
       Action("", "Copy", <<>>, <<"grep">>,
              << <<"grep", <<"cp", " ", "{{", "src", "}}", " ", "{{", "dst", "}}">> >> >>,
              << Field("src", "path", <<>>, <<>>, <<>>, <<>>),
                 Field("dst", "path", <<"out">>, <<>>, <<>>, <<>>) >>) >>

\* the binaries that may be on PATH
Binaries == {"rg", "grep"}

\* detect.Has
Has(onPath, bin) == bin \in onPath

FieldsOfType(action, types) ==
    SelectSeq(action.Fields, LAMBDA f : f.Type \in types)

boolItems(action) == FieldsOfType(action, {"bool"})
intItems(action) == FieldsOfType(action, {"int"})
floatItems(action) == FieldsOfType(action, {"float"})
enumItems(action) == FieldsOfType(action, {"enum"})
\* the keys of the strInputs map
strInputs(action) ==
    {f.Key : f \in Range(FieldsOfType(action, {"string", "path", "multi"}))}

\* 0-based position of the default among the choices, 0 when it is not there
DefaultChoice(f) ==
    IF Len(f.Default) > 0 /\ \E i \in 1..Len(f.Choices) : f.Choices[i] = f.Default[1]
    THEN (CHOOSE i \in 1..Len(f.Choices) :
             /\ f.Choices[i] = f.Default[1]
             /\ \A j \in 1..(i - 1) : f.Choices[j] # f.Default[1]) - 1
    ELSE 0

\* available[0], available[i] = available[i], available[0] for the first i
\* that holds the preferred tool
PreferFirst(available, c, actionID) ==
    LET pref == PreferredTool(c, actionID)
        hits == {i \in 1..Len(available) : available[i] = pref[1]}
    IN  IF ~c.nil /\ actionID # "" /\ pref[2] /\ hits # {}
        THEN LET i == CHOOSE h \in hits : \A g \in hits : h <= g
             IN  [available EXCEPT ![1] = available[i], ![i] = available[1]]
        ELSE available

AvailableKeepsAll(action, onPath) == action.Candidates

\* the candidates found on PATH, all of them when none is found
Available(action, onPath) ==
    LET found == SelectSeq(action.Candidates, LAMBDA c : Has(onPath, c))
    IN  IF Len(found) = 0 THEN action.Candidates ELSE found

AvailableSearchTools(onPath) ==
    IF Has(onPath, "rg") THEN <<"rg", "grep", "awk">>
    ELSE IF Has(onPath, "grep") THEN <<"grep", "awk">>
    ELSE <<"awk">>

Model(form, action, prefKey, tools, focus, bools, ints, floats, enums) ==
    [form |-> form, action |-> action, prefKey |-> prefKey, tools |-> tools,
     toolIdx |-> 0, focus |-> focus, listIdx |-> 0, boolVal |-> bools,
     intVal |-> ints, floatVal |-> floats, enumIdx |-> enums]

NoModel == Model("none", NoAction, "", <<>>, "", <<>>, <<>>, <<>>, <<>>)

\* the form of an action; focus is the text input focused at construction
NewActionModel(action, c, onPath, focus) ==
    Model("action", action, action.ID,
          PreferFirst(Available(action, onPath), c, action.ID), focus,
          [i \in 1..Len(boolItems(action)) |->
              IF Len(boolItems(action)[i].Default) > 0
              THEN boolItems(action)[i].Default[1] ELSE FALSE],
          [i \in 1..Len(intItems(action)) |->
              IF Len(intItems(action)[i].Default) > 0
              THEN intItems(action)[i].Default[1] ELSE 0],
          [i \in 1..Len(floatItems(action)) |->
              IF Len(floatItems(action)[i].Default) > 0
              THEN floatItems(action)[i].Default[1] ELSE 0],
          [i \in 1..Len(enumItems(action)) |-> DefaultChoice(enumItems(action)[i])])

\* the search form: query focused, five toggles, context lines, build
NewSearchModelWithConfig(actionID, c, onPath) ==
    Model("search", NoAction, actionID,
          PreferFirst(AvailableSearchTools(onPath), c, actionID), "query",
          <<FALSE, FALSE, FALSE, FALSE, FALSE>>, <<0>>, <<>>, <<>>)

\* number of rows of the list above "Build & Insert"
Rows(mm) ==
    Len(mm.boolVal) + Len(mm.intVal) + Len(mm.floatVal) + Len(mm.enumIdx)

\* list.Model with one row a page: the cursor moves by one and stops at
\* either end
CursorUp(mm) == [mm EXCEPT !.listIdx = IF @ > 0 THEN @ - 1 ELSE @]
CursorDown(mm) == [mm EXCEPT !.listIdx = IF @ < Rows(mm) THEN @ + 1 ELSE @]

(***************************************************************************)
(* The key handlers of the action form, as functions of the model.         *)
(***************************************************************************)
\* "ctrl+t"
CtrlT(mm) ==
    IF Len(mm.tools) > 1
    THEN [mm EXCEPT !.toolIdx = (@ + 1) % Len(mm.tools)]
    ELSE mm

\* "tab": the inputs are ranged over in map order, which Go randomises, so
\* the input focused next is any other input, or none (the list, row 0)
TabTargets(mm) ==
    IF mm.focus # "" THEN (strInputs(mm.action) \ {mm.focus}) \cup {""}
    ELSE IF strInputs(mm.action) # {} THEN strInputs(mm.action)
    ELSE {""}

Tab(mm, next) ==
    IF mm.focus # "" /\ next = ""
    THEN [mm EXCEPT !.focus = "", !.listIdx = 0]
    ELSE [mm EXCEPT !.focus = next]

\* "+": *v = *v + 1 on an int row, += 1.0 on a float row
Plus(mm) ==
    LET idx == mm.listIdx
        nb == Len(mm.boolVal)
        ni == Len(mm.intVal)
        nf == Len(mm.floatVal)
    IN  IF idx >= 0 /\ idx < Rows(mm)
        THEN IF idx >= nb /\ idx < nb + ni
             THEN [mm EXCEPT !.intVal[idx - nb + 1] = @ + 1]
             ELSE IF idx >= nb + ni /\ idx < nb + ni + nf
             THEN [mm EXCEPT !.floatVal[idx - nb - ni + 1] = @ + FloatOne]
             ELSE mm
        ELSE mm

\* "-", "_"
Minus(mm) ==
    LET idx == mm.listIdx
        nb == Len(mm.boolVal)
        ni == Len(mm.intVal)
        nf == Len(mm.floatVal)
    IN  IF idx >= 0 /\ idx < Rows(mm)
        THEN IF idx >= nb /\ idx < nb + ni
             THEN LET i == idx - nb + 1
                      min == intItems(mm.action)[i].Min
                  IN  IF Len(min) > 0
                      THEN IF mm.intVal[i] > min[1]
                           THEN [mm EXCEPT !.intVal[i] = @ - 1] ELSE mm
                      ELSE IF mm.intVal[i] > 0
                           THEN [mm EXCEPT !.intVal[i] = @ - 1] ELSE mm
             ELSE IF idx >= nb + ni /\ idx < nb + ni + nf
             THEN LET i == idx - nb - ni + 1
                      min == floatItems(mm.action)[i].Min
                  IN  IF Len(min) > 0
                      THEN IF mm.floatVal[i] > min[1]
                           THEN [mm EXCEPT !.floatVal[i] = @ - FloatTenth] ELSE mm
                      ELSE [mm EXCEPT !.floatVal[i] = @ - FloatTenth]
             ELSE mm
        ELSE mm

\* after the switch on the key: the text input the key event is handed to,
\* the focused one; none when the list has the focus and takes it
HandedTo(mm) == mm.focus

\* "enter" builds and quits when a text input is focused or the cursor is
\* on "Build & Insert"
EnterCommits(mm) == mm.focus # "" \/ mm.listIdx = Rows(mm)

\* an "enter" whose enum stops at its last choice
EnterRowStopsAtLast(mm) ==
    LET idx == mm.listIdx
        nb == Len(mm.boolVal)
        nn == Len(mm.intVal) + Len(mm.floatVal)
    IN  IF idx < 0 \/ idx >= Rows(mm) THEN mm
        ELSE IF idx < nb THEN [mm EXCEPT !.boolVal[idx + 1] = ~@]
        ELSE IF idx < nb + nn THEN mm
        ELSE LET e == idx - nb - nn + 1
                 n == Len(enumItems(mm.action)[e].Choices)
             IN  [mm EXCEPT !.enumIdx[e] = IF @ + 1 >= n THEN @ ELSE @ + 1]

\* "enter" on another row: toggle a bool, cycle an enum, nothing on a number
EnterRow(mm) ==
    LET idx == mm.listIdx
        nb == Len(mm.boolVal)
        nn == Len(mm.intVal) + Len(mm.floatVal)
    IN  IF idx < 0 \/ idx >= Rows(mm) THEN mm
        ELSE IF idx < nb THEN [mm EXCEPT !.boolVal[idx + 1] = ~@]
        ELSE IF idx < nb + nn THEN mm
        ELSE LET e == idx - nb - nn + 1
                 n == Len(enumItems(mm.action)[e].Choices)
             IN  IF n > 0
                 THEN [mm EXCEPT !.enumIdx[e] = IF @ + 1 >= n THEN 0 ELSE @ + 1]
                 ELSE mm

(***************************************************************************)
(* buildCommand.  A template, a value and the command are sequences of     *)
(* tokens: "{{" and "}}" are the two delimiters, "|" and "?" the two       *)
(* separators, "%s" and "%d" two printf verbs, " " and "\t" white space,   *)
(* and every other token is a run of bytes without any of these.  The      *)
(* values map holds, for a key, a string, a bool, an int or a float64 (in  *)
(* hundredths); a key that is not in the map is Absent.                    *)
(***************************************************************************)
\* longest placeholder body, in tokens
MaxBody == 3

Verbs == {"%s", "%d"}
Spaces == {" ", "\t"}
FieldKeys == {"k", "j"}

StrVal(s) == [type |-> "string", str |-> s, num |-> 0]
BoolVal(b) == [type |-> "bool", str |-> <<>>, num |-> IF b THEN 1 ELSE 0]
IntVal(n) == [type |-> "int", str |-> <<>>, num |-> n]
FloatVal(h) == [type |-> "float64", str |-> <<>>, num |-> h]
Absent == [type |-> "absent", str |-> <<>>, num |-> 0]

LookupOtherKey(values, key) ==
    IF key = <<"k">> THEN values["j"] ELSE Absent

\* v, ok := values[key]: only a key of one token can be a field's key
Lookup(values, key) ==
    IF Len(key) = 1 /\ key[1] \in DOMAIN values THEN values[key[1]] ELSE Absent

\* the decimal digits of a natural number, most significant first
RECURSIVE DigitsOf(_)
DigitsOf(n) == IF n < 10 THEN <<n>> ELSE DigitsOf(n \div 10) \o <<n % 10>>

RECURSIVE StripZeros(_)
StripZeros(digits) ==
    IF Len(digits) > 1 /\ digits[Len(digits)] = 0
    THEN StripZeros(SubSeq(digits, 1, Len(digits) - 1))
    ELSE digits

\* %g below an exponent of 6: the digits with a decimal point, no trailing zeros
FixedNotation(h) ==
    LET a == IF h < 0 THEN 0 - h ELSE h
        sign == IF h < 0 THEN <<"-">> ELSE <<>>
        whole == a \div 100
        frac == a % 100
    IN  sign \o
        (IF frac = 0 THEN <<ToString(whole)>>
         ELSE IF frac % 10 = 0 THEN <<ToString(whole), ".", ToString(frac \div 10)>>
         ELSE IF frac < 10 THEN <<ToString(whole), ".", "0", ToString(frac)>>
         ELSE <<ToString(whole), ".", ToString(frac)>>)

\* %g from an exponent of 6 on: d.ddde+XX with at least two exponent digits
ExponentNotation(h) ==
    LET a == IF h < 0 THEN 0 - h ELSE h
        sign == IF h < 0 THEN <<"-">> ELSE <<>>
        exp == Len(DigitsOf(a \div 100)) - 1
        digits == StripZeros(DigitsOf(a))
    IN  sign \o <<ToString(digits[1])>>
             \o (IF Len(digits) > 1
                 THEN <<".">> \o [i \in 1..(Len(digits) - 1) |-> ToString(digits[i + 1])]
                 ELSE <<>>)
             \o (IF exp < 10 THEN <<"e+", "0", ToString(exp)>> ELSE <<"e+", ToString(exp)>>)

\* fmt.Sprintf("%g", f) of a float64 that is a whole number of hundredths:
\* the shortest digits that read back as f, in exponent notation when the
\* decimal exponent is 6 or more
MinExponent == 100000000
FormatG(h) ==
    IF h >= MinExponent \/ 0 - h >= MinExponent THEN ExponentNotation(h) ELSE FixedNotation(h)

\* fmt.Sprint(v), which is also strconv.Itoa for an int and %g for a float64
Sprint(v) ==
    IF v.type = "string" THEN v.str
    ELSE IF v.type = "bool" THEN (IF v.num = 1 THEN <<"true">> ELSE <<"false">>)
    ELSE IF v.type = "int" THEN <<ToString(v.num)>>
    ELSE FormatG(v.num)

\* one verb applied to the operand: the text, or fmt's bad-verb notation
FormatVerb(verb, v) ==
    IF (verb = "%s" /\ v.type = "string") \/ (verb = "%d" /\ v.type = "int")
    THEN Sprint(v)
    ELSE <<(IF verb = "%s" THEN "%!s(" ELSE "%!d(") , v.type, "=">> \o Sprint(v) \o <<")">>

\* fmt.Sprintf(format, v) with the one operand v: the first verb takes the
\* operand, a later verb finds none, an operand no verb took is reported
RECURSIVE SprintfFrom(_, _, _)
SprintfFrom(format, v, taken) ==
    IF format = <<>>
    THEN (IF taken THEN <<>>
          ELSE <<"%!(EXTRA", " ", v.type, "=">> \o Sprint(v) \o <<")">>)
    ELSE IF format[1] \in Verbs
    THEN (IF taken THEN <<(IF format[1] = "%s" THEN "%!s(MISSING)" ELSE "%!d(MISSING)")>>
          ELSE FormatVerb(format[1], v))
            \o SprintfFrom(Tail(format), v, TRUE)
    ELSE <<format[1]>> \o SprintfFrom(Tail(format), v, taken)

Sprintf(format, v) == SprintfFrom(format, v, FALSE)

\* strings.Contains(s, "%")
ContainsPercent(s) == \E i \in 1..Len(s) : s[i] \in Verbs

\* strings.TrimSpace
RECURSIVE TrimSpace(_)
TrimSpace(s) ==
    IF Len(s) > 0 /\ s[1] \in Spaces THEN TrimSpace(Tail(s))
    ELSE IF Len(s) > 0 /\ s[Len(s)] \in Spaces THEN TrimSpace(SubSeq(s, 1, Len(s) - 1))
    ELSE s

\* strings.Fields: the maximal runs of tokens that are not white space
RECURSIVE Fields(_)
Fields(s) ==
    IF s = <<>> THEN <<>>
    ELSE IF s[1] \in Spaces THEN Fields(Tail(s))
    ELSE LET stop == IF \E i \in 1..Len(s) : s[i] \in Spaces
                     THEN CHOOSE i \in 1..Len(s) :
                             /\ s[i] \in Spaces
                             /\ \A j \in 1..(i - 1) : s[j] \notin Spaces
                     ELSE Len(s) + 1
         IN  <<SubSeq(s, 1, stop - 1)>> \o Fields(SubSeq(s, stop, Len(s)))

\* strings.Join(fields, " ")
RECURSIVE Join(_)
Join(fields) ==
    IF fields = <<>> THEN <<>>
    ELSE IF Len(fields) = 1 THEN fields[1]
    ELSE fields[1] \o <<" ">> \o Join(Tail(fields))

TruthyWhenPresent(v) == TRUE

\* the switch on the type of the value of a conditional placeholder
Truthy(v) ==
    \/ v.type = "bool" /\ v.num = 1
    \/ v.type = "string" /\ v.str # <<>>
    \/ v.type \in {"int", "float64"} /\ v.num # 0

\* the three branches of src/internal/ui/action_model.go
FormattedCurrent(key, format, values) ==
    LET v == Lookup(values, key)
    IN  IF v # Absent THEN Sprintf(format, v) ELSE <<>>

ConditionalCurrent(key, flag, values) ==
    LET v == Lookup(values, key)
    IN  IF v # Absent /\ Truthy(v) THEN flag ELSE <<>>

Substitute(placeholder, values) ==
    LET v == Lookup(values, placeholder)
    IN  IF v # Absent THEN Sprint(v) ELSE <<>>

\* what one placeholder adds to the result: "|" is looked for first
ExpandCurrent(placeholder, values) ==
    LET bar == Index(placeholder, "|")
        q == Index(placeholder, "?")
    IN  IF bar > 0
        THEN FormattedCurrent(SubSeq(placeholder, 1, bar - 1),
                              SubSeq(placeholder, bar + 1, Len(placeholder)), values)
        ELSE IF q > 0
        THEN ConditionalCurrent(SubSeq(placeholder, 1, q - 1),
                                SubSeq(placeholder, q + 1, Len(placeholder)), values)
        ELSE Substitute(placeholder, values)

\* the branches of src/unnamed/part_002
ConditionalLegacy(key, cond, values) ==
    LET val == Lookup(values, key)
    IN  IF val # Absent /\ Truthy(val)
        THEN (IF ContainsPercent(cond) THEN Sprintf(cond, val) ELSE cond)
        ELSE <<>>

FormattedLegacy(key, format, values) ==
    LET val == Lookup(values, key)
    IN  IF \/ val.type = "string" /\ val.str # <<>>
           \/ val.type \in {"int", "float64"}
        THEN (IF ContainsPercent(format) THEN Sprintf(format, val) ELSE format)
        ELSE <<>>

\* what one placeholder adds to the result: the body is trimmed, then "?"
\* is looked for first, and either separator counts only behind a first byte
ExpandLegacy(untrimmed, values) ==
    LET placeholder == TrimSpace(untrimmed)
        qIndex == Index(placeholder, "?")
        bar == Index(placeholder, "|")
    IN  IF qIndex > 1
        THEN ConditionalLegacy(TrimSpace(SubSeq(placeholder, 1, qIndex - 1)),
                               SubSeq(placeholder, qIndex + 1, Len(placeholder)), values)
        ELSE IF bar > 1
        THEN FormattedLegacy(TrimSpace(SubSeq(placeholder, 1, bar - 1)),
                             SubSeq(placeholder, bar + 1, Len(placeholder)), values)
        ELSE Substitute(placeholder, values)

Expand(form, placeholder, values) ==
    IF form = "current" THEN ExpandCurrent(placeholder, values)
    ELSE ExpandLegacy(placeholder, values)

\* a loop that stops at an unmatched "{{" without copying the rest
RECURSIVE ScanDropsUnmatched(_, _, _)
ScanDropsUnmatched(form, template, values) ==
    IF template = <<>> THEN <<>>
    ELSE IF template[1] = "{{"
    THEN LET end == Index(Tail(template), "}}")
         IN  IF end = 0 THEN <<>>
             ELSE Expand(form, SubSeq(template, 2, end), values)
                    \o ScanDropsUnmatched(form, SubSeq(template, end + 2, Len(template)), values)
    ELSE <<template[1]>> \o ScanDropsUnmatched(form, Tail(template), values)

\* the loop over the template: text is copied, "{{" body "}}" is expanded,
\* and a "{{" without a "}}" behind it is copied with the rest
RECURSIVE Scan(_, _, _)
Scan(form, template, values) ==
    IF template = <<>> THEN <<>>
    ELSE IF template[1] = "{{"
    THEN LET end == Index(Tail(template), "}}")
         IN  IF end = 0 THEN template
             ELSE Expand(form, SubSeq(template, 2, end), values)
                    \o Scan(form, SubSeq(template, end + 2, Len(template)), values)
    ELSE <<template[1]>> \o Scan(form, Tail(template), values)

buildCommandWithoutFields(form, template, values) == Scan(form, template, values)

\* the command: the result of the loop with its white space normalised
buildCommand(form, template, values) ==
    Join(Fields(Scan(form, template, values)))

(***************************************************************************)
(* The command of a form at its commit, and what main does with it.        *)
(***************************************************************************)
\* tmpl, ok := m.action.Template[tool]
TemplateOf(action, tool) ==
    LET hits == {i \in 1..Len(action.Template) : action.Template[i][1] = tool}
    IN  IF hits = {} THEN [ok |-> FALSE, text |-> <<>>]
        ELSE [ok |-> TRUE, text |-> action.Template[CHOOSE i \in hits : TRUE][2]]

\* the first tool of the list that has a template, "" when none has
RECURSIVE FirstWithTemplate(_, _)
FirstWithTemplate(action, tools) ==
    IF tools = <<>> THEN <<>>
    ELSE IF TemplateOf(action, tools[1]).ok THEN TemplateOf(action, tools[1]).text
    ELSE FirstWithTemplate(action, Tail(tools))

\* the template buildCommand renders: the selected tool's (the empty
\* string when the map has none); src/unnamed/part_002 then tries the tools
\* of the list in order
SelectTemplate(form, mm) ==
    LET own == TemplateOf(mm.action, mm.tools[mm.toolIdx + 1])
    IN  IF own.ok \/ form = "current" THEN own.text
        ELSE FirstWithTemplate(mm.action, mm.tools)

\* the values map buildCommand fills from the form: the text of an input
\* (its default, no typing being modelled), the bool, int and float rows,
\* and the choice of an enum row
FormValues(form, mm) ==
    LET a == mm.action
        texts == FieldsOfType(a, {"string", "path", "multi"})
        enums == enumItems(a)
        pairs ==
            {<<texts[i].Key,
               StrVal(IF Len(texts[i].Default) > 0 THEN <<texts[i].Default[1]>> ELSE <<>>)>> :
                  i \in 1..Len(texts)}
            \cup {<<boolItems(a)[i].Key, BoolVal(mm.boolVal[i])>> : i \in 1..Len(mm.boolVal)}
            \cup {<<intItems(a)[i].Key, IntVal(mm.intVal[i])>> : i \in 1..Len(mm.intVal)}
            \cup {<<floatItems(a)[i].Key, FloatVal(mm.floatVal[i])>> : i \in 1..Len(mm.floatVal)}
            \cup {<<enums[i].Key, StrVal(<<enums[i].Choices[mm.enumIdx[i] + 1]>>)>> :
                     i \in {j \in 1..Len(mm.enumIdx) :
                               IF form = "current" THEN mm.enumIdx[j] < Len(enums[j].Choices)
                               ELSE Len(enums[j].Choices) > 0}}
    IN  [k \in {p[1] : p \in pairs} |-> (CHOOSE p \in pairs : p[1] = k)[2]]

\* actions.SearchOptions
SearchOptions(query, dir, word, ignoreCase, regex, context, glob, filesWith, hidden) ==
    [Query |-> query, Dir |-> dir, Word |-> word, IgnoreCase |-> ignoreCase,
     Regex |-> regex, Context |-> context, Glob |-> glob,
     FilesWithMatch |-> filesWith, Hidden |-> hidden]

\* strings.ReplaceAll(o.Query, "'", "'\\''")
RECURSIVE EscapeQuotes(_)
EscapeQuotes(query) ==
    IF query = <<>> THEN <<>>
    ELSE (IF query[1] = "'" THEN <<"'", "\\", "'", "'">> ELSE <<query[1]>>)
            \o EscapeQuotes(Tail(query))

\* a BuildSearchCommand that puts the pattern and the directory after the
\* tool's name and nothing else
BuildSearchCommandBare(tool, o) ==
    <<tool, " ", "'">> \o o.Query \o <<"'", " ", ".">>

\* actions.BuildSearchCommand
BuildSearchCommand(tool, o) ==
    LET dir == IF TrimSpace(o.Dir) # <<>> THEN o.Dir ELSE <<".">>
        Flag(on, text) == IF on THEN <<text>> ELSE <<>>
        ctx == IF o.Context > 0 THEN <<<<"-C", " ", ToString(o.Context)>>>> ELSE <<>>
        glob == IF o.Glob # <<>> THEN <<<<"-g", " ", "'">> \o o.Glob \o <<"'">>>> ELSE <<>>
        quoted == <<"'">> \o o.Query \o <<"'">>
    IN  IF tool = "rg"
        THEN Join(<<<<"rg">>>> \o Flag(o.IgnoreCase, <<"-i">>) \o Flag(o.Word, <<"-w">>)
                    \o Flag(~o.Regex, <<"-F">>) \o ctx \o glob
                    \o Flag(o.FilesWithMatch, <<"-l">>)
                    \o Flag(o.Hidden, <<"-uu">>) \o <<quoted, dir>>)
        ELSE IF tool = "grep"
        THEN Join(<<<<"grep">>, <<"-R">>, <<"-n">>>> \o Flag(o.IgnoreCase, <<"-i">>)
                    \o Flag(o.Word, <<"-w">>) \o ctx \o Flag(o.FilesWithMatch, <<"-l">>)
                    \o Flag(~o.Regex, <<"-F">>))
                \o <<" ">> \o quoted \o <<" ">> \o dir
        ELSE <<"awk", " ", "'FNR==1{fn=FILENAME} /">> \o EscapeQuotes(o.Query)
                \o <<"/{print fn\":\"FNR\":\"$0}'", " ", "$(find", " ">> \o dir
                \o <<" ", "-type", " ", "f)">>

\* the options the search form hands over at its commit: its text inputs
\* hold what they were made with, nothing
FormOptions(mm) ==
    SearchOptions(<<>>, <<>>, mm.boolVal[2], mm.boolVal[1], mm.boolVal[3],
                  mm.intVal[1], <<>>, mm.boolVal[4], mm.boolVal[5])

\* m.final of the form that commits
FinalCommand(form, mm) ==
    IF mm.form = "search" THEN BuildSearchCommand(mm.tools[mm.toolIdx + 1], FormOptions(mm))
    ELSE buildCommand(form, SelectTemplate(form, mm), FormValues(form, mm))

\* strings.ToLower on the names a catalogue or a command line holds
ToLower(name) ==
    CASE name = "Search" -> "search"
      [] name = "SEARCH" -> "search"
      [] name = "Pack" -> "pack"
      [] name = "Find" -> "find"
      [] name = "Copy" -> "copy"
      [] OTHER -> name

\* the value of --action and the first positional argument of a command
\* line that names an action: an ID in capitals, a synonym two actions
\* share, a title given with a positional argument beside it, and a name of
\* no action
CommandLines == {<<"SEARCH", "">>, <<"", "Find">>, <<"Pack", "bogus">>, <<"", "bogus">>}

\* a main that prints the command twice
PrintlnTwice(cmd) == IF cmd # <<>> THEN <<cmd, cmd>> ELSE <<>>

\* if cmd != "" { fmt.Println(cmd) }: the lines stdout receives
Println(cmd) == IF cmd # <<>> THEN <<cmd>> ELSE <<>>

\* the loop of main over reg.Actions: the index of the first action whose
\* ID, Title or one of whose Synonyms is the name in lower case, 0 if none
MatchAction(reg, given) ==
    LET name == ToLower(given)
        hits == {i \in 1..Len(reg) :
                    \/ ToLower(reg[i].ID) = name
                    \/ ToLower(reg[i].Title) = name
                    \/ \E j \in 1..Len(reg[i].Synonyms) : ToLower(reg[i].Synonyms[j]) = name}
    IN  IF hits = {} THEN 0 ELSE CHOOSE i \in hits : \A j \in hits : i <= j

(***************************************************************************)
(* The key handlers of the search form.                                    *)
(***************************************************************************)
\* "tab": query, dir, glob, the list (row 0), query again
SearchTab(mm) ==
    IF mm.focus = "query" THEN [mm EXCEPT !.focus = "dir"]
    ELSE IF mm.focus = "dir" THEN [mm EXCEPT !.focus = "glob"]
    ELSE IF mm.focus = "glob" THEN [mm EXCEPT !.focus = "", !.listIdx = 0]
    ELSE [mm EXCEPT !.focus = "query"]

\* "left", then the key goes to the focused input or to the list, where it
\* is the previous page
SearchLeft(mm) ==
    LET mv == IF mm.toolIdx > 0 THEN [mm EXCEPT !.toolIdx = @ - 1] ELSE mm
    IN  IF mm.focus = "" THEN CursorUp(mv) ELSE mv

\* "right"
SearchRight(mm) ==
    LET mv == IF mm.toolIdx < Len(mm.tools) - 1
              THEN [mm EXCEPT !.toolIdx = @ + 1] ELSE mm
    IN  IF mm.focus = "" THEN CursorDown(mv) ELSE mv

\* "+" and "-" act on the context row, index 5
SearchPlus(mm) ==
    IF mm.listIdx = 5 THEN [mm EXCEPT !.intVal[1] = @ + 1] ELSE mm

SearchMinus(mm) ==
    IF mm.listIdx = 5 /\ mm.intVal[1] > 0
    THEN [mm EXCEPT !.intVal[1] = @ - 1] ELSE mm

SearchEnterCommits(mm) == mm.focus # "" \/ mm.listIdx = 6

SearchEnterRow(mm) ==
    IF mm.listIdx \in 0..4 THEN [mm EXCEPT !.boolVal[mm.listIdx + 1] = ~@]
    ELSE mm

VARIABLES
    rc,        \* content of the shell rc file
    hist,      \* the installer invocations so far: [op, pre, post, msg]
    prefFile,  \* the preference file
    cfg,       \* the store this process holds (nil after a failed Load)
    ppc,       \* store API caller: "idle", "saving" (inside os.WriteFile), "crashed"
    rt,        \* progress of the latest SetPreference; Save; Load; PreferredTool
    got,       \* what the latest PreferredTool or Load returned
    seen,      \* what the latest Load of another instance returned
    saveOld,   \* the file when the Save in progress began
    saveNew,   \* the file the Save in progress is writing
    variant,   \* which action form is built in: "current" or "legacy"
    run,       \* number of program runs started
    pc,        \* where main is: "start", "palette", "form", "search", "exit"
    path,      \* the binaries exec.LookPath finds during this run
    palIdx,    \* cursor of the palette list
    m,         \* the form model (actionModel or the search model)
    outcome,   \* how the latest run ended: "none", "cancel", "commit", "status"
    nkeys,     \* key events delivered to the forms so far
    pref0,     \* the preference file when this run started
    rc0,       \* the rc file when this run started
    toggled,   \* ctrl+i was handled during this run
    saveErr,   \* the Save of this run's commit returned an error
    lastCommit, \* the commit that ended the previous run (form, action and
               \* tool), kept until a form of this run handles a key
    tmpl,      \* the template handed to buildCommand
    vals,      \* the values handed to buildCommand
    out,       \* whether buildCommand has returned, and the command
    stdio,     \* what this run wrote to stdout and to stderr, and the exit
               \* code it ended with
    arg,       \* the action name this run was started with, kept until a
               \* form handles a key
    doc,       \* the registry file handed to registry.Load
    loaded,    \* whether registry.Load has returned, and its results
    inst,      \* two instances of the program that share the preference
               \* file: where each stands and the store it holds
    wrote,     \* the data of the write to the preference file that came last
    search     \* the tool and the options handed to BuildSearchCommand,
               \* and the command once it has returned

shellVars == <<rc, hist>>
storeVars == <<prefFile, cfg>>
apiVars == <<ppc, rt, got, seen, saveOld, saveNew>>
runVars == <<variant, run, pc, path, outcome, pref0, rc0, toggled, saveErr>>
tuiVars == <<palIdx, m, nkeys>>
renderVars == <<tmpl, vals, out, search>>
ioVars == <<stdio, arg>>
loadVars == <<doc, loaded>>
raceVars == <<inst, wrote>>
vars == <<rc, hist, prefFile, cfg, ppc, rt, got, seen, saveOld, saveNew,
          variant, run, pc, path, palIdx, m, outcome, nkeys, pref0, rc0,
          toggled, saveErr, lastCommit, tmpl, vals, out, stdio, arg, doc, loaded, inst, wrote,
          search>>

NoCommit == [form |-> "none", action |-> NoAction, tool |-> ""]
NoStdio == [out |-> <<>>, err |-> <<>>, code |-> 0]
NoDocument == [kind |-> "none", actions |-> <<>>]
NotLoaded == [done |-> FALSE, err |-> FALSE, nil |-> TRUE, Actions |-> <<>>]
LoadIdle == doc = NoDocument /\ loaded = NotLoaded
NoInstances == <<>>
NoWrite == [by |-> 0, data |-> AbsentFile]
RaceIdle == inst = NoInstances /\ wrote = NoWrite
NoRoundTrip == [stage |-> 0, id |-> "", tool |-> ""]
NoResult == [op |-> "none", tool |-> "", ok |-> FALSE, err |-> FALSE, pre |-> AbsentFile]

ShellIdle == rc = <<>> /\ hist = <<>>
StoreIdle == prefFile = AbsentFile /\ cfg = NilConfig
FormsIdle ==
    /\ run = 0 /\ pc = "start" /\ path = {}
    /\ palIdx = 0 /\ m = NoModel /\ outcome = "none" /\ nkeys = 0
    /\ pref0 = AbsentFile /\ rc0 = <<>> /\ toggled = FALSE /\ saveErr = FALSE
    /\ lastCommit = NoCommit
    /\ stdio = NoStdio /\ arg = "" /\ LoadIdle /\ RaceIdle
TuiIdle == variant = "current" /\ FormsIdle
NoOutput == [done |-> FALSE, cmd |-> <<>>]
NoSearch ==
    [tool |-> "", done |-> FALSE, cmd |-> <<>>,
     o |-> SearchOptions(<<>>, <<>>, FALSE, FALSE, FALSE, 0, <<>>, FALSE, FALSE)]
RenderIdle == tmpl = <<>> /\ vals = <<>> /\ out = NoOutput /\ search = NoSearch
ApiIdle ==
    /\ ppc = "idle" /\ rt = NoRoundTrip /\ got = NoResult /\ seen = NoResult
    /\ saveOld = AbsentFile /\ saveNew = AbsentFile

(***************************************************************************)
(* SpecShell: the binary invoked with --install-shell or --uninstall-shell *)
(* any number of times on an rc file with any initial content.             *)
(***************************************************************************)
InitShell ==
    /\ rc \in SeqsUpTo(Alphabet, MaxLen)
    /\ hist = <<>>
    /\ StoreIdle /\ ApiIdle /\ TuiIdle /\ RenderIdle

RunInstaller(op, install) ==
    /\ Len(hist) < MaxOps
    /\ LET r == ToggleShellIntegration(rc, install)
       IN  /\ rc' = r.content
           /\ hist' = Append(hist, [op |-> op, pre |-> rc, post |-> r.content, msg |-> r.msg])
    /\ UNCHANGED <<storeVars, apiVars, runVars, tuiVars, lastCommit, renderVars, loadVars, raceVars, ioVars>>

\* main: if *installShell { ToggleShellIntegration(installShell) }
InstallShell == RunInstaller("install", "true")

\* main: if *uninstallShell { ToggleShellIntegration(new(bool)) }
UninstallShell == RunInstaller("uninstall", "false")

NextShell == InstallShell \/ UninstallShell

SpecShell == InitShell /\ [][NextShell]_vars

(***************************************************************************)
(* The installer on an rc file whose reads and writes may fail.            *)
(***************************************************************************)
MaxFaultyOps == 1

\* how os.ReadFile and os.WriteFile end
ReadOutcomes == {"read", "read fails"}
WriteOutcomes == {"written", "open fails", "write fails"}

\* data, _ := os.ReadFile(rcFile): the content, or nothing when the read
\* fails, the error being dropped
ReadFileDroppingError(content, reading) ==
    IF reading = "read" THEN content ELSE <<>>

\* os.WriteFile(rcFile, newContent, 0o644): the file afterwards and whether
\* an error is returned; the open truncates, so a write that fails after it
\* leaves the file empty
WriteFileEnds(content, newContent, writing) ==
    IF writing = "written" THEN [content |-> newContent, err |-> FALSE]
    ELSE IF writing = "open fails" THEN [content |-> content, err |-> TRUE]
    ELSE [content |-> <<>>, err |-> TRUE]

\* ToggleShellIntegration with the outcomes of its read and of its write
ToggleWithFaults(content, install, reading, writing) ==
    LET r == ToggleShellIntegration(ReadFileDroppingError(content, reading), install)
        w == WriteFileEnds(content, r.content, writing)
    IN  IF r.wrote
        THEN [content |-> w.content, err |-> w.err, msg |-> IF w.err THEN "" ELSE r.msg]
        ELSE [content |-> content, err |-> FALSE, msg |-> r.msg]

RunFaultyInstaller(op, install) ==
    /\ Len(hist) < MaxFaultyOps
    /\ \E reading \in ReadOutcomes, writing \in WriteOutcomes :
          LET r == ToggleWithFaults(rc, install, reading, writing)
          IN  /\ rc' = r.content
              /\ hist' = Append(hist, [op |-> op, pre |-> rc, post |-> r.content,
                                       msg |-> r.msg, err |-> r.err,
                                       reading |-> reading, writing |-> writing])
    /\ UNCHANGED <<storeVars, apiVars, runVars, tuiVars, lastCommit, renderVars, loadVars,
                   raceVars, ioVars>>

FaultyInstall == RunFaultyInstaller("install", "true")

FaultyUninstall == RunFaultyInstaller("uninstall", "false")

NextFaulty == FaultyInstall \/ FaultyUninstall

SpecFaulty == InitShell /\ [][NextFaulty]_vars

(***************************************************************************)
(* SpecPrefs: the store API (Load, SetPreference, Save, PreferredTool) as  *)
(* a process calls it, on any initial preference file.  Save is two steps, *)
(* the open that truncates and the write, with a crash possible between    *)
(* them and another instance free to Load at any time.                     *)
(***************************************************************************)
InitPrefs ==
    /\ prefFile \in PrefFiles
    /\ cfg = NilConfig
    /\ ShellIdle /\ ApiIdle /\ TuiIdle /\ RenderIdle

Result(op, tool, ok, err, pre) ==
    [op |-> op, tool |-> tool, ok |-> ok, err |-> err, pre |-> pre]

\* cfg, err := Load(), by a process that is starting or running
PLoad ==
    /\ ppc \in {"idle", "crashed"}
    /\ cfg' = Load(prefFile).cfg
    /\ got' = Result("load", "", FALSE, Load(prefFile).err, prefFile)
    /\ rt' = IF rt.stage = 2 THEN [rt EXCEPT !.stage = 3] ELSE NoRoundTrip
    /\ ppc' = "idle"
    /\ UNCHANGED <<prefFile, seen, saveOld, saveNew, shellVars, runVars, tuiVars,
                 lastCommit, renderVars, loadVars, raceVars, ioVars>>

\* cfg.SetPreference(actionID, tool)
PSetPreference ==
    /\ ppc = "idle" /\ ~cfg.nil
    /\ \E i \in 1..Len(PrefIds), tool \in PrefTools :
          /\ cfg' = SetPreference(cfg, PrefIds[i], tool)
          /\ rt' = [stage |-> 1, id |-> PrefIds[i], tool |-> tool]
    /\ got' = Result("set", "", FALSE, FALSE, prefFile)
    /\ UNCHANGED <<prefFile, ppc, seen, saveOld, saveNew, shellVars, runVars, tuiVars,
                 lastCommit, renderVars, loadVars, raceVars, ioVars>>

\* Save(cfg), first half: os.WriteFile opens the file, truncating it
PSaveOpen ==
    /\ ppc = "idle" /\ ~cfg.nil
    /\ ppc' = "saving"
    /\ saveOld' = prefFile
    /\ saveNew' = WriteFileWritten(cfg)
    /\ prefFile' = WriteFileOpened(prefFile)
    /\ got' = Result("save", "", FALSE, FALSE, prefFile)
    /\ rt' = IF rt.stage = 1 THEN rt ELSE NoRoundTrip
    /\ UNCHANGED <<cfg, seen, shellVars, runVars, tuiVars,
                 lastCommit, renderVars, loadVars, raceVars, ioVars>>

\* Save(cfg) when the open fails: the error is returned, nothing is written
PSaveFails ==
    /\ ppc = "idle" /\ ~cfg.nil
    /\ prefFile' = Save(cfg, prefFile, FALSE)
    /\ got' = Result("save", "", FALSE, TRUE, prefFile)
    /\ rt' = NoRoundTrip
    /\ UNCHANGED <<cfg, ppc, seen, saveOld, saveNew, shellVars, runVars, tuiVars,
                 lastCommit, renderVars, loadVars, raceVars, ioVars>>

\* Save(cfg), second half: the data is written and the file closed
PSaveWrite ==
    /\ ppc = "saving"
    /\ prefFile' = Save(cfg, prefFile, TRUE)
    /\ ppc' = "idle"
    /\ rt' = IF rt.stage = 1 THEN [rt EXCEPT !.stage = 2] ELSE NoRoundTrip
    /\ UNCHANGED <<cfg, got, seen, saveOld, saveNew, shellVars, runVars, tuiVars,
                 lastCommit, renderVars, loadVars, raceVars, ioVars>>

\* the process dies between the open and the write
PCrash ==
    /\ ppc = "saving"
    /\ ppc' = "crashed"
    /\ cfg' = NilConfig
    /\ rt' = NoRoundTrip
    /\ UNCHANGED <<prefFile, got, seen, saveOld, saveNew, shellVars, runVars, tuiVars,
                 lastCommit, renderVars, loadVars, raceVars, ioVars>>

\* tool, ok := cfg.PreferredTool(actionID)
PPreferredTool ==
    /\ ppc = "idle" /\ ~cfg.nil
    /\ \E i \in 1..Len(PrefIds) :
          LET r == PreferredTool(cfg, PrefIds[i])
          IN  /\ got' = Result("get", r[1], r[2], FALSE, prefFile)
              /\ rt' = IF rt.stage = 3 /\ rt.id = PrefIds[i]
                       THEN [rt EXCEPT !.stage = 4] ELSE NoRoundTrip
    /\ UNCHANGED <<prefFile, cfg, ppc, seen, saveOld, saveNew, shellVars, runVars, tuiVars,
                 lastCommit, renderVars, loadVars, raceVars, ioVars>>

\* another instance of the program starts and Loads the file
OtherLoad ==
    /\ seen' = Result("load", "", FALSE, Load(prefFile).err, prefFile)
    /\ seen' # seen
    /\ UNCHANGED <<prefFile, cfg, ppc, rt, got, saveOld, saveNew, shellVars, runVars, tuiVars,
                 lastCommit, renderVars, loadVars, raceVars, ioVars>>

NextPrefs ==
    \/ PLoad
    \/ PSetPreference
    \/ PSaveOpen
    \/ PSaveFails
    \/ PSaveWrite
    \/ PCrash
    \/ PPreferredTool
    \/ OtherLoad

SpecPrefs == InitPrefs /\ [][NextPrefs]_vars

(***************************************************************************)
(* SpecRender: buildCommand applied once to a template and a values map,   *)
(* in either variant of the action form.  A template is one placeholder    *)
(* with any body of at most MaxBody tokens, or a placeholder with a body   *)
(* of at most one token between some text, where the closing delimiter may *)
(* be missing and a second placeholder may follow.                         *)
(***************************************************************************)
BodyTokens == {"k", "|", "?", "%s", " ", "a"}
Before ==
    {<<>>, <<"a", " ">>, <<"{{", "j", "}}", " ">>,
     <<"'", "a", " ", " ", "b", "'", " ">>}
After == {<<>>, <<"}}">>, <<"}}", "\t">>, <<"}}", " ", "{{", "j", "|", "%d", "}}">>}
Templates ==
    {<<"{{">> \o body \o <<"}}">> : body \in SeqsUpTo(BodyTokens, MaxBody)}
        \cup {b \o <<"{{">> \o body \o a :
                 b \in Before, body \in SeqsUpTo(BodyTokens, 1), a \in After}

\* the values the field with key "k" may hold at a commit, and those of "j"
ValuesOfK ==
    {Absent, StrVal(<<>>), StrVal(<<"x", " ", " ", "y">>), BoolVal(TRUE),
     BoolVal(FALSE), IntVal(0), IntVal(3), FloatVal(0), FloatVal(150), FloatVal(MinExponent)}
ValuesOfJ == {Absent, IntVal(7)}
ValueMaps == {[k |-> vk, j |-> vj] : vk \in ValuesOfK, vj \in ValuesOfJ}

InitRender ==
    /\ tmpl \in Templates
    /\ vals \in ValueMaps
    /\ out = NoOutput
    /\ search = NoSearch
    /\ variant \in {"current", "legacy"}
    /\ ShellIdle /\ StoreIdle /\ ApiIdle /\ FormsIdle

\* cmd := m.buildCommand()
Render ==
    /\ ~out.done
    /\ out' = [done |-> TRUE, cmd |-> buildCommand(variant, tmpl, vals)]
    /\ UNCHANGED <<shellVars, storeVars, apiVars, runVars, tuiVars, lastCommit, ioVars,
                   loadVars, raceVars, tmpl, vals, search>>

NextRender == Render
SpecRender == InitRender /\ [][NextRender]_vars

(***************************************************************************)
(* actions.BuildSearchCommand over tools and options.                      *)
(***************************************************************************)
\* the three tools and a name that is none of them
SearchTools == {"rg", "grep", "awk", "ag"}
Queries == {<<>>, <<"foo">>, <<"don", "'", "t">>, <<"-F">>, <<"-i">>}
Dirs == {<<>>, <<" ">>, <<"src">>}
Globs == {<<>>, <<"*.go">>}
Contexts == {0 - 1, 0, 2}

InitSearch ==
    /\ \E query \in Queries, dir \in Dirs, glob \in Globs, context \in Contexts,
          word \in BOOLEAN, ignoreCase \in BOOLEAN, regex \in BOOLEAN,
          filesWith \in BOOLEAN, hidden \in BOOLEAN, tool \in SearchTools :
          search = [tool |-> tool, done |-> FALSE, cmd |-> <<>>,
                    o |-> SearchOptions(query, dir, word, ignoreCase, regex, context,
                                        glob, filesWith, hidden)]
    /\ tmpl = <<>> /\ vals = <<>> /\ out = NoOutput
    /\ ShellIdle /\ StoreIdle /\ ApiIdle /\ TuiIdle

\* cmd := BuildSearchCommand(tool, opts)
Build ==
    /\ ~search.done
    /\ search' = [search EXCEPT !.done = TRUE,
                                !.cmd = BuildSearchCommand(search.tool, search.o)]
    /\ UNCHANGED <<shellVars, storeVars, apiVars, runVars, tuiVars, lastCommit, ioVars,
                   loadVars, raceVars, tmpl, vals, out>>

NextSearch == Build
SpecSearch == InitSearch /\ [][NextSearch]_vars

(***************************************************************************)
(* Two instances of the program and the one preference file.  Each Loads   *)
(* at its start and, at its commit, sets a preference and Saves; the Save  *)
(* is os.WriteFile: an open that truncates, then one write at offset 0     *)
(* through the instance's own descriptor.                                  *)
(***************************************************************************)
Instances == {1, 2}

\* len(s) of the ids and tools a preference file holds
ByteLen(s) ==
    CASE s = "archive" -> 7
      [] s = "search" -> 6
      [] s = "grep" -> 4
      [] s = "rg" -> 2
      [] OTHER -> 0

\* the bytes of the members in json.MarshalIndent(cfg, "", "  "): four
\* spaces, the quoted key, ": ", the quoted value, a comma but for the
\* last, a newline
RECURSIVE MemberBytes(_)
MemberBytes(members) ==
    IF members = <<>> THEN 0
    ELSE 11 + ByteLen(members[1][1]) + ByteLen(members[1][2])
            + (IF Len(members) > 1 THEN 1 ELSE 0) + MemberBytes(Tail(members))

\* the length of a file in bytes; of a file that is no JSON only what the
\* writes of the instances can leave is counted
Size(file) ==
    IF file.kind \in {"json", "mixed"}
    THEN (IF file.members = <<>> THEN 23 ELSE 26 + MemberBytes(file.members))
    ELSE 0

\* write(fd, data) at offset 0 of a file another descriptor may have written
\* to since this one was opened: the data, and behind it what the file held
\* beyond the length of the data
WriteAtStart(file, data) ==
    IF Size(data) >= Size(file) THEN data
    ELSE [kind |-> "mixed", members |-> file.members]

Instance(at, store, data) == [pc |-> at, cfg |-> store, data |-> data]

RaceFiles ==
    {AbsentFile, JsonFile(<< <<"archive", "grep">> >>),
     JsonFile(<< <<"archive", "rg">>, <<"search", "rg">> >>)}

InitRace ==
    /\ prefFile \in RaceFiles
    /\ cfg = NilConfig
    /\ inst = [i \in Instances |-> Instance("start", NilConfig, AbsentFile)]
    /\ wrote = NoWrite
    /\ ShellIdle /\ ApiIdle /\ RenderIdle /\ LoadIdle
    /\ variant = "current" /\ run = 0 /\ pc = "start" /\ path = {}
    /\ palIdx = 0 /\ m = NoModel /\ outcome = "none" /\ nkeys = 0
    /\ pref0 = AbsentFile /\ rc0 = <<>> /\ toggled = FALSE /\ saveErr = FALSE
    /\ lastCommit = NoCommit /\ stdio = NoStdio /\ arg = ""

RaceFrame ==
    UNCHANGED <<shellVars, cfg, apiVars, runVars, tuiVars, lastCommit, ioVars,
                renderVars, loadVars>>

\* cfg, _ := config.Load() at the start of an instance
RaceLoad(i) ==
    /\ inst[i].pc = "start"
    /\ inst' = [inst EXCEPT ![i] = Instance("form", Load(prefFile).cfg, AbsentFile)]
    /\ UNCHANGED <<prefFile, wrote>>
    /\ RaceFrame

\* the commit of an instance: SetPreference, MarshalIndent, and the open of
\* os.WriteFile, which truncates the file
RaceSaveOpen(i) ==
    /\ inst[i].pc = "form" /\ ~inst[i].cfg.nil
    /\ \E n \in 1..Len(PrefIds), tool \in PrefTools :
          LET store == SetPreference(inst[i].cfg, PrefIds[n], tool)
          IN  inst' = [inst EXCEPT ![i] = Instance("saving", store, WriteFileWritten(store))]
    /\ prefFile' = WriteFileOpened(prefFile)
    /\ UNCHANGED wrote
    /\ RaceFrame

\* the write of os.WriteFile and the close
RaceSaveWrite(i) ==
    /\ inst[i].pc = "saving"
    /\ prefFile' = WriteAtStart(prefFile, inst[i].data)
    /\ wrote' = [by |-> i, data |-> inst[i].data]
    /\ inst' = [inst EXCEPT ![i].pc = "exit"]
    /\ RaceFrame

NextRace == \E i \in Instances : RaceLoad(i) \/ RaceSaveOpen(i) \/ RaceSaveWrite(i)

SpecRace == InitRace /\ [][NextRace]_vars

(***************************************************************************)
(* registry.Load over registry files.                                      *)
(***************************************************************************)
MaxActions == 2

\* the registry file: missing, not YAML of the Registry shape, or a YAML
\* document with a list of actions
MissingDocument == [kind |-> "missing", actions |-> <<>>]
MalformedDocument == [kind |-> "malformed", actions |-> <<>>]
YamlDocument(actions) == [kind |-> "yaml", actions |-> actions]

\* registry.Parse: the document decoded into a Registry, or the decoder's
\* error; nothing else is looked at
Parse(document) ==
    IF document.kind = "malformed"
    THEN [done |-> TRUE, err |-> TRUE, nil |-> TRUE, Actions |-> <<>>]
    ELSE [done |-> TRUE, err |-> FALSE, nil |-> FALSE, Actions |-> document.actions]

\* registry.Load: os.Open, then Parse
LoadRegistry(document) ==
    IF document.kind = "missing"
    THEN [done |-> TRUE, err |-> TRUE, nil |-> TRUE, Actions |-> <<>>]
    ELSE Parse(document)

CandidateLists == {<<>>, <<"grep">>, <<"rg", "grep">>}
TemplateMaps ==
    {<<>>, << <<"rg", <<"rg", " ", "{{", "q", "}}">> >> >>,
     << <<"grep", <<"grep", " ", "{{", "q", "}}">> >> >>}
ActionDocuments ==
    {Action("a", "A", <<>>, candidates, template, <<>>) :
        candidates \in CandidateLists, template \in TemplateMaps}
Documents ==
    {MissingDocument, MalformedDocument}
        \cup {YamlDocument(actions) : actions \in SeqsUpTo(ActionDocuments, MaxActions)}

InitLoad ==
    /\ doc \in Documents
    /\ loaded = NotLoaded
    /\ ShellIdle /\ StoreIdle /\ ApiIdle /\ RenderIdle
    /\ variant = "current" /\ run = 0 /\ pc = "start" /\ path = {}
    /\ palIdx = 0 /\ m = NoModel /\ outcome = "none" /\ nkeys = 0
    /\ pref0 = AbsentFile /\ rc0 = <<>> /\ toggled = FALSE /\ saveErr = FALSE
    /\ lastCommit = NoCommit /\ stdio = NoStdio /\ arg = "" /\ RaceIdle

\* reg, err := registry.Load("registry.yaml")
RegistryLoad ==
    /\ ~loaded.done
    /\ loaded' = LoadRegistry(doc)
    /\ UNCHANGED <<shellVars, storeVars, apiVars, runVars, tuiVars, lastCommit, ioVars,
                   renderVars, raceVars, doc>>

NextLoad == RegistryLoad

SpecLoad == InitLoad /\ [][NextLoad]_vars

(***************************************************************************)
(* Spec: the program run up to MaxRuns times by one user: main loads the   *)
(* store (ignoring the error), opens the palette or, without a catalogue,  *)
(* the search form, and the form handles key events until it quits.  The   *)
(* legacy action form differs from the current one in focusing a text      *)
(* input at construction and in handling "ctrl+i".                         *)
(***************************************************************************)
\* the preference files a run of the program starts on
StartFiles ==
    {AbsentFile, GarbageFile,
     JsonFile(<< <<"search", "grep">> >>), JsonFile(<< <<"archive", "rg">> >>)}

Init ==
    /\ rc = <<>> /\ hist = <<>>
    /\ prefFile \in StartFiles
    /\ cfg = NilConfig
    /\ ApiIdle
    /\ variant \in {"current", "legacy"}
    /\ run = 0 /\ pc = "start" /\ path = {}
    /\ palIdx = 0 /\ m = NoModel /\ outcome = "none" /\ nkeys = 0
    /\ pref0 = prefFile /\ rc0 = rc /\ toggled = FALSE /\ saveErr = FALSE
    /\ lastCommit = NoCommit /\ RenderIdle /\ LoadIdle /\ RaceIdle
    /\ stdio = NoStdio /\ arg = ""

\* a run begins
Begin ==
    /\ pc \in {"start", "exit"}
    /\ run < MaxRuns
    /\ run' = run + 1
    /\ pref0' = prefFile /\ rc0' = rc
    /\ toggled' = FALSE /\ saveErr' = FALSE
    /\ palIdx' = 0
    /\ lastCommit' = IF outcome = "commit"
                     THEN [form |-> m.form, action |-> m.action,
                           tool |-> m.tools[m.toolIdx + 1]]
                     ELSE NoCommit
    /\ UNCHANGED <<prefFile, apiVars, renderVars, loadVars, raceVars, variant, nkeys, hist>>

\* main with --install-shell or --uninstall-shell: toggles and returns
MainShell(install) ==
    /\ Begin
    /\ variant = "current"
    /\ LET r == ToggleShellIntegration(rc, install)
       IN  /\ rc' = r.content
           /\ stdio' = [out |-> <<r.msg>>, err |-> <<>>, code |-> 0]
    /\ arg' = ""
    /\ pc' = "exit" /\ outcome' = "status"
    /\ m' = NoModel
    /\ UNCHANGED <<cfg, path>>

MainInstallShell == MainShell("true")

MainUninstallShell == MainShell("false")

\* cfg, _ := config.Load(), registry loaded: the palette opens
MainPalette ==
    /\ Begin
    /\ cfg' = Load(prefFile).cfg
    /\ path' \in SUBSET Binaries
    /\ pc' = "palette" /\ outcome' = "none"
    /\ m' = NoModel
    /\ stdio' = NoStdio /\ arg' = ""
    /\ UNCHANGED rc

\* cfg, _ := config.Load(), no catalogue: the search form opens, whatever
\* action name the command line gave
MainSearch ==
    /\ Begin
    /\ cfg' = Load(prefFile).cfg
    /\ path' \in SUBSET Binaries
    /\ pc' = "search" /\ outcome' = "none"
    /\ m' = NewSearchModelWithConfig("search", cfg', path')
    /\ stdio' = NoStdio
    /\ arg' \in (IF variant = "current" /\ run < MaxNamedRuns THEN {"", "bogus"} ELSE {""})
    /\ UNCHANGED rc

\* main with --action or a positional argument, catalogue loaded: the form
\* of the first action the name matches, or the diagnostic and exit code 1
MainAction ==
    /\ Begin
    /\ variant = "current"
    /\ run < MaxNamedRuns
    /\ \E args \in CommandLines :
          LET actionFlag == args[1]
              positional == args[2]
              given == IF actionFlag = "" THEN positional ELSE actionFlag
              selected == MatchAction(Registry, given)
          IN  /\ arg' = given
              /\ cfg' = Load(prefFile).cfg
              /\ path' \in SUBSET Binaries
              /\ IF selected > 0
                 THEN /\ m' = NewActionModel(Registry[selected], cfg', path', "")
                      /\ pc' = "form" /\ outcome' = "none"
                      /\ stdio' = NoStdio
                 ELSE /\ m' = NoModel
                      /\ pc' = "exit" /\ outcome' = "unknown"
                      /\ stdio' = [out |-> <<>>,
                                   err |-> <<<<"Unknown action: ", given>>>>,
                                   code |-> 1]
    /\ UNCHANGED rc

Quit(how) == pc' = "exit" /\ outcome' = how

\* the palette: cursor keys go to the list
PaletteKey(idx) ==
    /\ pc = "palette"
    /\ idx \in 0..(Len(Registry) - 1) /\ idx # palIdx
    /\ palIdx' = idx
    /\ UNCHANGED <<shellVars, storeVars, apiVars, lastCommit, renderVars, loadVars, raceVars, ioVars, runVars, m, nkeys>>

PaletteUp == PaletteKey(palIdx - 1)

PaletteDown == PaletteKey(palIdx + 1)

\* "enter" in the palette: the selected action's form opens
PaletteEnter ==
    /\ pc = "palette"
    /\ \E focus \in (IF variant = "legacy" /\ strInputs(Registry[palIdx + 1]) # {}
                     THEN strInputs(Registry[palIdx + 1]) ELSE {""}) :
          m' = NewActionModel(Registry[palIdx + 1], cfg, path, focus)
    /\ pc' = "form"
    /\ UNCHANGED <<shellVars, storeVars, apiVars, lastCommit, renderVars, loadVars, raceVars, ioVars, palIdx, nkeys, variant, run,
                   path, outcome, pref0, rc0, toggled, saveErr>>

\* "esc", "ctrl+c" in the palette, a form or the search form
CancelFrom(at) ==
    /\ pc = at
    /\ Quit("cancel")
    /\ arg' = ""
    /\ UNCHANGED <<shellVars, storeVars, apiVars, lastCommit, renderVars, loadVars, raceVars, stdio, tuiVars,
                   variant, run, path, pref0, rc0, toggled, saveErr>>

PaletteCancel == CancelFrom("palette")

\* a key event whose handler only changes the model
Key(at, mm) ==
    /\ pc = at
    /\ nkeys < MaxKeys
    /\ nkeys' = nkeys + 1
    /\ m' = mm
    /\ lastCommit' = NoCommit /\ arg' = ""
    /\ UNCHANGED <<shellVars, storeVars, apiVars, renderVars, loadVars, raceVars, stdio, runVars, palIdx>>

\* the ways os.WriteFile ends: the data is written; the open fails and
\* the file is as it was; the write fails after the open truncated the file
SaveOutcomes == {"written", "open fails", "write fails"}

SaveEnds(c, file, how) ==
    IF how = "write fails" THEN WriteFileOpened(file)
    ELSE Save(c, file, how = "written")

\* m.cfg.SetPreference(m.prefKey, tool); _ = config.Save(m.cfg)
Persist(mm) ==
    IF ~cfg.nil /\ mm.prefKey # ""
    THEN \E how \in SaveOutcomes :
            /\ cfg' = SetPreference(cfg, mm.prefKey, mm.tools[mm.toolIdx + 1])
            /\ prefFile' = SaveEnds(cfg', prefFile, how)
            /\ saveErr' = (how # "written")
    ELSE UNCHANGED <<cfg, prefFile, saveErr>>

\* "enter" that builds the command and quits
Commit(at) ==
    /\ pc = at
    /\ nkeys < MaxKeys
    /\ nkeys' = nkeys + 1
    /\ Persist(m)
    /\ Quit("commit")
    /\ stdio' = [out |-> Println(FinalCommand(variant, m)), err |-> <<>>, code |-> 0]
    /\ lastCommit' = NoCommit /\ arg' = ""
    /\ UNCHANGED <<shellVars, apiVars, renderVars, loadVars, raceVars, palIdx, m, variant, run, path, pref0,
                   rc0, toggled>>

FormCancelPersists ==
    /\ pc = "form"
    /\ Quit("cancel")
    /\ Persist(m)
    /\ arg' = ""
    /\ UNCHANGED <<shellVars, apiVars, lastCommit, renderVars, loadVars, raceVars, stdio, tuiVars, variant, run,
                   path, pref0, rc0, toggled>>

FormCancel == CancelFrom("form")

FormCtrlT == Key("form", CtrlT(m))

FormTab == \E next \in TabTargets(m) : Key("form", Tab(m, next))

FormPlus == Key("form", Plus(m))

FormMinus == Key("form", Minus(m))

FormEnter ==
    IF EnterCommits(m) THEN Commit("form") ELSE Key("form", EnterRow(m))

\* cursor keys reach the list when no text input is focused
FormUp == m.focus = "" /\ Key("form", CursorUp(m))

FormDown == m.focus = "" /\ Key("form", CursorDown(m))

\* "ctrl+i" in the legacy form: ToggleShellIntegration() in toggle mode
FormCtrlI ==
    /\ pc = "form" /\ variant = "legacy"
    /\ nkeys < MaxKeys
    /\ nkeys' = nkeys + 1
    /\ rc' = ToggleShellIntegration(rc, "nil").content
    /\ toggled' = TRUE
    /\ lastCommit' = NoCommit /\ arg' = ""
    /\ UNCHANGED <<hist, storeVars, apiVars, renderVars, loadVars, raceVars, stdio, palIdx, m, variant, run, pc, path,
                   outcome, pref0, rc0, saveErr>>

SearchCancel == CancelFrom("search")

SearchCtrlT == Key("search", CtrlT(m))

SearchKeyTab == Key("search", SearchTab(m))

SearchKeyLeft == Key("search", SearchLeft(m))

SearchKeyRight == Key("search", SearchRight(m))

SearchKeyPlus == Key("search", SearchPlus(m))

SearchKeyMinus == Key("search", SearchMinus(m))

SearchEnter ==
    IF SearchEnterCommits(m) THEN Commit("search")
    ELSE Key("search", SearchEnterRow(m))

SearchUp == m.focus = "" /\ Key("search", CursorUp(m))

SearchDown == m.focus = "" /\ Key("search", CursorDown(m))

Next ==
    \/ MainInstallShell
    \/ MainUninstallShell
    \/ MainPalette
    \/ MainSearch
    \/ MainAction
    \/ PaletteUp
    \/ PaletteDown
    \/ PaletteEnter
    \/ PaletteCancel
    \/ FormCancel
    \/ FormCtrlT
    \/ FormTab
    \/ FormPlus
    \/ FormMinus
    \/ FormEnter
    \/ FormUp
    \/ FormDown
    \/ FormCtrlI
    \/ SearchCancel
    \/ SearchCtrlT
    \/ SearchKeyTab
    \/ SearchKeyLeft
    \/ SearchKeyRight
    \/ SearchKeyPlus
    \/ SearchKeyMinus
    \/ SearchEnter
    \/ SearchUp
    \/ SearchDown

Spec == Init /\ [][Next]_vars

(***************************************************************************)
(* A form in use.  The form has been open for a while: the list has the    *)
(* focus and the cursor is on any of its rows; from there the cursor keys, *)
(* tab, the keys that adjust a number and the keys that select the tool.   *)
(* The action form is that of an action a registry file may hold: one with *)
(* a text input and an int field that declares no minimum, whose default   *)
(* is absent, zero, positive or negative, or one that names no candidate.  *)
(***************************************************************************)
IntDefaults == {<<>>, <<0>>, <<1>>, <<0 - 2>>}

CounterAction(default) ==
    Action("count", "Count", <<>>, <<"grep", "rg">>,
           << <<"grep", <<"wc", " ", "{{", "n", "|", "-n", " ", "%d", "}}", " ",
                          "{{", "q", "}}">> >> >>,
           << Field("q", "string", <<>>, <<>>, <<>>, <<>>),
              Field("n", "int", default, <<>>, <<>>, <<>>) >>)

\* an action without candidates, which registry.Parse accepts
BareAction ==
    Action("bare", "Bare", <<>>, <<>>, <<>>,
           << Field("q", "string", <<>>, <<>>, <<>>, <<>>) >>)

FormActions == {CounterAction(default) : default \in IntDefaults} \cup {BareAction}

InitForms ==
    /\ rc = <<>> /\ hist = <<>>
    /\ prefFile = AbsentFile
    /\ cfg = Load(prefFile).cfg
    /\ ApiIdle
    /\ variant \in {"current", "legacy"}
    /\ run = 1 /\ path \in {{"grep"}, {"grep", "rg"}}
    /\ \/ /\ pc = "form"
          /\ \E action \in FormActions :
                LET new == NewActionModel(action, cfg, path, "")
                IN  \E row \in 0..Rows(new) : m = [new EXCEPT !.listIdx = row]
       \/ /\ pc = "search"
          /\ LET new == NewSearchModelWithConfig("search", cfg, path)
             IN  \E row \in 0..Rows(new) : m = [new EXCEPT !.focus = "", !.listIdx = row]
    /\ palIdx = 0 /\ outcome = "none" /\ nkeys = 0
    /\ pref0 = prefFile /\ rc0 = rc /\ toggled = FALSE /\ saveErr = FALSE
    /\ lastCommit = NoCommit /\ RenderIdle /\ LoadIdle /\ RaceIdle
    /\ stdio = NoStdio /\ arg = ""

\* View has drawn the form, which it does with m.tools[m.toolIdx]: with no
\* tool that is an index out of range and the program ends there
Drawn == m.tools # <<>>

NextForms ==
    \/ Drawn /\ FormPlus
    \/ Drawn /\ FormMinus
    \/ Drawn /\ FormUp
    \/ Drawn /\ FormDown
    \/ Drawn /\ FormTab
    \/ Drawn /\ FormCtrlT
    \/ Drawn /\ SearchKeyPlus
    \/ Drawn /\ SearchKeyMinus
    \/ Drawn /\ SearchUp
    \/ Drawn /\ SearchDown
    \/ Drawn /\ SearchKeyTab
    \/ Drawn /\ SearchCtrlT
    \/ Drawn /\ SearchKeyLeft
    \/ Drawn /\ SearchKeyRight

SpecForms == InitForms /\ [][NextForms]_vars

(***************************************************************************)
(* Properties of the installer, stated over hist.                          *)
(***************************************************************************)
\* a managed region is present: the test of the uninstall branch
RegionPresent(content) ==
    /\ Index(content, beginMarker) > 0
    /\ Index(content, endMarker) > Index(content, beginMarker)

MarkerFree(content) ==
    \A i \in 1..Len(content) : content[i] \notin {beginMarker, endMarker}

\* the lines of a content: the pieces between newlines
RECURSIVE Lines(_)
Lines(s) ==
    LET n == Index(s, NL)
    IN  IF n = 0 THEN <<s>>
        ELSE <<SubSeq(s, 1, n - 1)>> \o Lines(SubSeq(s, n + 1, Len(s)))

RECURSIVE NonBlank(_)
NonBlank(ls) ==
    IF ls = <<>> THEN <<>>
    ELSE (IF Head(ls) = <<>> THEN <<>> ELSE <<Head(ls)>>) \o NonBlank(Tail(ls))

NonBlankLines(s) == NonBlank(Lines(s))

\* the user's lines: those outside the managed region, when there is one
UserLines(content) ==
    IF RegionPresent(content)
    THEN NonBlankLines(SubSeq(content, 1, Index(content, beginMarker) - 1))
            \o NonBlankLines(SubSeq(content, Index(content, endMarker) + 1, Len(content)))
    ELSE NonBlankLines(content)

IsPrefix(s, t) == Len(s) <= Len(t) /\ SubSeq(t, 1, Len(s)) = s

\* C2: Install is idempotent: a second Install leaves the rc file
\* byte-identical, and Install appends the snippet only when the markers
\* are absent (an Install on a file that holds the region changes nothing).
C2_InstallIdempotent ==
    \A i \in 1..Len(hist) :
        /\ (i > 1 /\ hist[i - 1].op = "install" /\ hist[i].op = "install")
              => hist[i].post = hist[i].pre
        /\ (hist[i].op = "install" /\ RegionPresent(hist[i].pre))
              => hist[i].post = hist[i].pre

C4_UninstallIdempotent ==
    \A i \in 1..Len(hist) :
        /\ (hist[i].op = "uninstall" /\ ~RegionPresent(hist[i].pre))
              => (hist[i].msg = msgNotInstalled /\ hist[i].post = hist[i].pre)
        /\ (i > 1 /\ hist[i - 1].op = "uninstall" /\ hist[i].op = "uninstall")
              => hist[i].post = hist[i].pre

C6_PreferenceRoundTrip ==
    rt.stage = 4 => (got.op = "get" /\ got.tool = rt.tool /\ got.ok)

\* the round trip was run on a store that held another preference already
C6_Witness ==
    /\ rt.stage = 4
    /\ got.op = "get"
    /\ Cardinality(DOMAIN cfg.Preferences) = 2

\* C7: Load gives an empty store and no error when the file is absent, an
\* error and no store when the file is there but malformed; the file is
\* not modified by it.
C7_LoadAbsentOrMalformed ==
    got.op = "load" =>
        /\ prefFile = got.pre
        /\ got.pre.kind = "absent" => (~got.err /\ cfg = Config(EmptyMap))
        /\ got.pre.kind \in {"empty", "garbage"} => (got.err /\ cfg.nil)

\* a Load of a malformed file
C7_Witness ==
    got.op = "load" /\ got.pre.kind = "garbage" /\ got.err

\* C8: Save replaces the file atomically: while a Save is under way, and
\* after a crash inside it, the file holds the complete previous content or
\* the complete new content.
C8_SaveAtomic ==
    ppc \in {"saving", "crashed"} => prefFile \in {saveOld, saveNew}

(***************************************************************************)
(* Properties of the forms and of the runs.                                *)
(***************************************************************************)
WithinBounds(f, v) ==
    /\ Len(f.Min) > 0 => v >= f.Min[1]
    /\ Len(f.Max) > 0 => v <= f.Max[1]

\* C1: in every state of the action form, whatever '+' and '-' keys were
\* handled since construction, each int and float field that declares a
\* min and/or a max holds a value v with min <= v <= max.
C1_AdjustWithinBounds ==
    pc = "form" =>
        /\ \A i \in 1..Len(m.intVal) :
              WithinBounds(intItems(m.action)[i], m.intVal[i])
        /\ \A i \in 1..Len(m.floatVal) :
              WithinBounds(floatItems(m.action)[i], m.floatVal[i])

C10_CommitPersists ==
    (outcome = "commit" /\ m.form = "action") =>
        /\ ~Load(prefFile).err
        /\ PreferredTool(Load(prefFile).cfg, m.prefKey) = <<m.tools[m.toolIdx + 1], TRUE>>


\* the action ids present in the persisted store (none can be read from a
\* file that does not load)
StoredIds(file) ==
    IF Load(file).err THEN {} ELSE DOMAIN Load(file).cfg.Preferences

\* C11: across the runs of one instance the set of action ids present in
\* the persisted preference store never shrinks, and the preference file
\* changes only in the step of a commit.
C11_EntriesNeverRemoved ==
    [][/\ StoredIds(prefFile) \subseteq StoredIds(prefFile')
       /\ (prefFile' # prefFile =>
              (pc \in {"form", "search"} /\ outcome' = "commit"))]_vars

\* sub is the subsequence of seq at the positions kept, in the order of seq
IsSubsequenceAt(sub, seq, kept) ==
    /\ Len(sub) = Cardinality(kept)
    /\ \E f \in [1..Len(sub) -> kept] :
          /\ \A j, k \in 1..Len(sub) : j < k => f[j] < f[k]
          /\ \A k \in 1..Len(sub) : sub[k] = seq[f[k]]

\* the tool list the claim describes for the candidates and the probe
IsAvailableList(tools, candidates, onPath) ==
    LET found == {i \in 1..Len(candidates) : Has(onPath, candidates[i])}
    IN  IF found # {} THEN IsSubsequenceAt(tools, candidates, found)
        ELSE tools = candidates

\* the store the form was built with holds a preference that is in the list
PreferenceApplies(c, key, tools) ==
    /\ ~c.nil /\ key # ""
    /\ PreferredTool(c, key)[2]
    /\ PreferredTool(c, key)[1] \in Range(tools)

\* C12: the tool list of an action form that no preference reordered is the
\* subsequence of the action's candidates the probe finds, in declaration
\* order, and all the candidates in declaration order when it finds none.
C12_AvailableIsFilteredCandidates ==
    (pc = "form" /\ ~PreferenceApplies(cfg, m.prefKey, m.tools)) =>
        IsAvailableList(m.tools, m.action.Candidates, path)

\* a form whose list lost a candidate the probe did not find
C12_Witness ==
    /\ pc = "form" /\ ~PreferenceApplies(cfg, m.prefKey, m.tools)
    /\ Len(m.tools) < Len(m.action.Candidates)

\* the list before the reordering of the form that is open
BaseTools ==
    IF m.form = "action" THEN Available(m.action, path)
    ELSE AvailableSearchTools(path)

\* pref at the head, the other tools behind it in the order they had
RotatedToHead(tools, pref) ==
    <<pref>> \o SelectSeq(tools, LAMBDA t : t # pref)

\* C13: a stored preference that is in the available list is rotated to
\* its head, the remaining tools keeping their relative order; without a
\* preference in the list, the list is left unchanged.
C13_PreferenceRotatedToHead ==
    pc \in {"form", "search"} =>
        m.tools = IF PreferenceApplies(cfg, m.prefKey, BaseTools)
                  THEN RotatedToHead(BaseTools, PreferredTool(cfg, m.prefKey)[1])
                  ELSE BaseTools

\* the form that is open is the form of the action the previous run
\* committed, and the tool selected at that commit is available now
CommittedInPreviousRun ==
    /\ pc \in {"form", "search"}
    /\ lastCommit.form = m.form /\ lastCommit.action = m.action
    /\ lastCommit.tool \in Range(BaseTools)

\* C14: across two consecutive runs on the same action, the tool that was
\* selected when the first run committed is the first tool of the second
\* run's list whenever it is in the second run's available list.
C14_CommittedToolFirstNextRun ==
    CommittedInPreviousRun => m.tools[1] = lastCommit.tool

\* C15: the emitted command has no white space at its start or its end and
\* no two white-space bytes in a row (the templates hold no quoted region,
\* so every run of spaces is outside one).
C15_CommandNormalised ==
    out.done =>
        /\ out.cmd # <<>> =>
              (out.cmd[1] \notin Spaces /\ out.cmd[Len(out.cmd)] \notin Spaces)
        /\ \A i \in 1..(Len(out.cmd) - 1) :
              ~(out.cmd[i] \in Spaces /\ out.cmd[i + 1] \in Spaces)
        /\ \A i \in 1..Len(out.cmd) : out.cmd[i] # "\t"

\* a command whose text before the normalisation had white space at an
\* end and a run of two spaces inside
C15_Witness ==
    /\ out.done /\ out.cmd # <<>>
    /\ LET raw == Scan(variant, tmpl, vals)
       IN  /\ raw[1] \in Spaces \/ raw[Len(raw)] \in Spaces
           /\ \E i \in 1..(Len(raw) - 1) : raw[i] = " " /\ raw[i + 1] = " "

\* the bodies of the placeholders of a template, as the loop delimits them
RECURSIVE PlaceholderBodies(_)
PlaceholderBodies(template) ==
    IF template = <<>> THEN {}
    ELSE IF template[1] = "{{"
    THEN LET end == Index(Tail(template), "}}")
         IN  IF end = 0 THEN {}
             ELSE {SubSeq(template, 2, end)}
                    \cup PlaceholderBodies(SubSeq(template, end + 2, Len(template)))
    ELSE PlaceholderBodies(Tail(template))

\* the key a placeholder body names: its text before the first separator,
\* without the white space around it
KeyOf(body) ==
    LET seps == {i \in 1..Len(body) : body[i] \in {"|", "?"}}
        first == IF seps = {} THEN Len(body) + 1
                 ELSE CHOOSE i \in seps : \A j \in seps : i <= j
    IN  TrimSpace(SubSeq(body, 1, first - 1))

\* the field keys the placeholders of a template reference
ReferencedKeys(template) ==
    {key \in FieldKeys : \E body \in PlaceholderBodies(template) : KeyOf(body) = <<key>>}

\* C16: the command depends only on the values of the keys the template
\* references: every values map that agrees with the one used on those keys
\* gives the same command (and so do equal inputs).
C16_DependsOnReferencedKeys ==
    out.done =>
        \A v2 \in ValueMaps :
            (\A key \in ReferencedKeys(tmpl) : v2[key] = vals[key]) =>
                buildCommand(variant, tmpl, v2) = out.cmd

\* a command with the value of one key in it, built while the other key,
\* which the template does not reference, holds a value too
C16_Witness ==
    /\ out.done /\ out.cmd # <<>>
    /\ ReferencedKeys(tmpl) = {"k"}
    /\ vals["k"] # Absent /\ vals["j"] # Absent
    /\ buildCommand(variant, tmpl, [vals EXCEPT !["k"] = Absent]) # out.cmd

\* what a placeholder adds when the dispatch is the one specified: a body
\* with "|" is formatted, split at its first "|"; a body without "|" and
\* with "?" is conditional, split at its first "?"; any other body is a
\* substitution.  Each shape is rendered by the variant's own branch.
DispatchAsSpecified(form, untrimmed, values) ==
    LET body == IF form = "legacy" THEN TrimSpace(untrimmed) ELSE untrimmed
        bar == Index(body, "|")
        q == Index(body, "?")
        KeyTo(n) == IF form = "legacy" THEN TrimSpace(SubSeq(body, 1, n - 1))
                  ELSE SubSeq(body, 1, n - 1)
        Rest(n) == SubSeq(body, n + 1, Len(body))
    IN  IF bar > 0
        THEN (IF form = "legacy" THEN FormattedLegacy(KeyTo(bar), Rest(bar), values)
              ELSE FormattedCurrent(KeyTo(bar), Rest(bar), values))
        ELSE IF q > 0
        THEN (IF form = "legacy" THEN ConditionalLegacy(KeyTo(q), Rest(q), values)
              ELSE ConditionalCurrent(KeyTo(q), Rest(q), values))
        ELSE Substitute(body, values)

\* C17: a placeholder body that contains "|" is treated as formatted even
\* if it contains "?" too, a body without "|" that contains "?" is treated
\* as conditional, and any other body as a substitution.
C17_DispatchOrder ==
    out.done =>
        \A body \in PlaceholderBodies(tmpl) :
            Expand(variant, body, vals) = DispatchAsSpecified(variant, body, vals)

\* a body of the shape key?literal: no "|", a key of one token that is no
\* white space, and a literal that is more than white space
IsConditionalBody(body) ==
    /\ Index(body, "|") = 0
    /\ Index(body, "?") = 2
    /\ body[1] \notin Spaces
    /\ TrimSpace(SubSeq(body, 3, Len(body))) # <<>>

\* truthiness as specified: a bool is truthy iff true, a string iff it is
\* not empty, an int or a float iff it is not zero, an absent key never
TruthyAsSpecified(values, key) ==
    /\ key \in DOMAIN values
    /\ \/ values[key].type = "bool" /\ values[key].num = 1
       \/ values[key].type = "string" /\ Len(values[key].str) > 0
       \/ values[key].type = "int" /\ values[key].num # 0
       \/ values[key].type = "float64" /\ values[key].num # 0

\* C18: a conditional placeholder key?literal produces output if and only
\* if the value of the key is truthy.
C18_ConditionalIffTruthy ==
    out.done =>
        \A body \in PlaceholderBodies(tmpl) :
            IsConditionalBody(body) =>
                (TrimSpace(Expand(variant, body, vals)) # <<>>
                    <=> TruthyAsSpecified(vals, body[1]))

\* a command that holds the literal of a conditional placeholder
C18_Witness ==
    /\ out.done /\ out.cmd # <<>>
    /\ \E body \in PlaceholderBodies(tmpl) :
          IsConditionalBody(body) /\ TruthyAsSpecified(vals, body[1])

\* C19: in a conditional placeholder whose key is truthy, a right-hand side
\* that contains "%" is emitted as a printf format applied to the value of
\* the key, and any other right-hand side is copied as it is.
C19_ConditionalFormatsPercent ==
    out.done =>
        \A body \in PlaceholderBodies(tmpl) :
            (IsConditionalBody(body) /\ TruthyAsSpecified(vals, body[1])) =>
                LET rhs == SubSeq(body, 3, Len(body))
                IN  Expand(variant, body, vals) =
                        IF \E i \in 1..Len(rhs) : rhs[i] \in Verbs
                        THEN Sprintf(rhs, vals[body[1]])
                        ELSE rhs

\* a body of the shape key|fmt: a key of one token that is no white space
\* before the first "|"
IsFormattedBody(body) ==
    /\ Index(body, "|") = 2
    /\ body[1] \notin Spaces

\* C20: a formatted placeholder key|fmt produces no output at all, not even
\* the literal part of fmt, when the value of the key is the empty string
\* or the key is missing from the values.
C20_FormattedEmptyOrMissing ==
    out.done =>
        \A body \in PlaceholderBodies(tmpl) :
            (/\ IsFormattedBody(body)
             /\ \/ body[1] \notin DOMAIN vals
                \/ vals[body[1]] \in {Absent, StrVal(<<>>)})
                => Expand(variant, body, vals) = <<>>

\* the value a formatted placeholder applies its format to: the key is in
\* the values map and does not hold the empty string
HasApplicableValue(body, values) ==
    /\ body[1] \in DOMAIN values
    /\ values[body[1]] \notin {Absent, StrVal(<<>>)}

\* the fmt of a formatted body key|fmt
FormatOf(body) == SubSeq(body, 3, Len(body))

\* C21: a formatted placeholder key|fmt whose fmt holds a verb, applied to a
\* present scalar that is not the empty string (a string, a bool, an int
\* including 0, a float including 0), emits exactly one application of fmt
\* to the value.
C21_FormattedAppliesOnce ==
    out.done =>
        \A body \in PlaceholderBodies(tmpl) :
            (/\ IsFormattedBody(body)
             /\ ContainsPercent(FormatOf(body))
             /\ HasApplicableValue(body, vals))
                => Expand(variant, body, vals) = Sprintf(FormatOf(body), vals[body[1]])

\* C22: a formatted placeholder key|fmt whose fmt holds no % emits exactly
\* the fmt literal, once, for a present scalar that is not the empty string,
\* and appends nothing to it.
C22_FormatWithoutVerbIsLiteral ==
    out.done =>
        \A body \in PlaceholderBodies(tmpl) :
            (/\ IsFormattedBody(body)
             /\ ~ContainsPercent(FormatOf(body))
             /\ HasApplicableValue(body, vals))
                => Expand(variant, body, vals) = FormatOf(body)

\* a body that is a key alone: no separator in it
IsSubstituteBody(body) == Len(body) = 1 /\ body[1] \notin {"|", "?"} \cup Spaces

\* the string form the claim gives a value: a string itself, true or false,
\* the decimal digits of an int, the decimal digits of a float without
\* trailing zeros, nothing for an absent key
StringFormAsSpecified(v) ==
    IF v.type = "absent" THEN <<>>
    ELSE IF v.type = "float64" THEN FixedNotation(v.num)
    ELSE Sprint(v)

\* C23: a substitute placeholder key is replaced by the string form of the
\* value of the key: a string by itself, a bool by true or false, an int by
\* its decimal form, a float by its shortest decimal without trailing
\* zeros, an absent key by the empty string.
C23_SubstituteStringForm ==
    out.done =>
        \A body \in PlaceholderBodies(tmpl) :
            IsSubstituteBody(body)
                => Expand(variant, body, vals) = StringFormAsSpecified(Lookup(vals, body))

\* the index of the "{{" the loop finds no "}}" after, 0 when every one is
\* closed
UnmatchedAt(template) ==
    LET open == {i \in 1..Len(template) :
                    /\ template[i] = "{{"
                    /\ \A j \in (i + 1)..Len(template) : template[j] # "}}"}
    IN  IF open = {} THEN 0 ELSE CHOOSE i \in open : \A j \in open : i <= j

\* C24: when a template holds a "{{" with no later "}}", a command is still
\* built: the placeholders before it are expanded, the text from that "{{"
\* to the end is copied as it stands, and the white space of the whole is
\* then collapsed.
C24_UnmatchedCopiedVerbatim ==
    (out.done /\ UnmatchedAt(tmpl) > 0) =>
        out.cmd = Join(Fields(Scan(variant, SubSeq(tmpl, 1, UnmatchedAt(tmpl) - 1), vals)
                                \o SubSeq(tmpl, UnmatchedAt(tmpl), Len(tmpl))))

\* a command built from {{j}} {{k with 7 under j: the 7 and the unclosed rest
C24_Witness ==
    /\ out.done
    /\ tmpl = <<"{{", "j", "}}", " ", "{{", "k">>
    /\ vals.j = IntVal(7)
    /\ out.cmd = <<"7", " ", "{{", "k">>

\* a placeholder body without the white space around its key
WithoutKeyPadding(body) ==
    LET seps == {i \in 1..Len(body) : body[i] \in {"|", "?"}}
        first == IF seps = {} THEN Len(body) + 1
                 ELSE CHOOSE i \in seps : \A j \in seps : i <= j
    IN  KeyOf(body) \o SubSeq(body, first, Len(body))

\* a template with every placeholder written without that white space
RECURSIVE Unpadded(_)
Unpadded(template) ==
    IF template = <<>> THEN <<>>
    ELSE IF template[1] = "{{"
    THEN LET end == Index(Tail(template), "}}")
         IN  IF end = 0 THEN template
             ELSE <<"{{">> \o WithoutKeyPadding(SubSeq(template, 2, end)) \o <<"}}">>
                    \o Unpadded(SubSeq(template, end + 2, Len(template)))
    ELSE <<template[1]>> \o Unpadded(Tail(template))

\* C25: white space around the key of a placeholder is trimmed: a template
\* renders to the same command as the template with its placeholders
\* written without that white space, in each of the three shapes.
C25_KeyPaddingTrimmed ==
    out.done => out.cmd = buildCommand(variant, Unpadded(tmpl), vals)

\* a form was committed with a tool selected that has no template, while a
\* candidate of the action has one
CommittedWithoutOwnTemplate ==
    /\ pc = "exit" /\ outcome = "commit" /\ m.form = "action"
    /\ ~TemplateOf(m.action, m.tools[m.toolIdx + 1]).ok
    /\ \E i \in 1..Len(m.action.Candidates) : TemplateOf(m.action, m.action.Candidates[i]).ok

\* C26: at a commit with a selected tool that has no entry in the action's
\* template map, the command is rendered from the template of the first
\* candidate that has an entry.
C26_FallsBackToFirstTemplate ==
    CommittedWithoutOwnTemplate =>
        stdio.out = Println(buildCommand(variant,
                                         FirstWithTemplate(m.action, m.action.Candidates),
                                         FormValues(variant, m)))

\* a form was committed whose action has no template for any candidate
CommittedWithoutAnyTemplate ==
    /\ pc = "exit" /\ outcome = "commit" /\ m.form = "action"
    /\ \A i \in 1..Len(m.action.Candidates) : ~TemplateOf(m.action, m.action.Candidates[i]).ok

\* C27: when no candidate of the action has a template entry the commit is
\* refused: a run that ends with such a commit has surfaced the error,
\* printed no command on stdout and left the preference file as it found it.
C27_CommitRefusedWithoutTemplate ==
    CommittedWithoutAnyTemplate =>
        /\ stdio.out = <<>>
        /\ stdio.err # <<>> \/ stdio.code # 0
        /\ prefFile = pref0

\* the tools an action has a template for
TemplateKeys(action) == {action.Template[i][1] : i \in 1..Len(action.Template)}

\* an action whose template keys are not all among its candidates
HasForeignTemplate(action) == ~(TemplateKeys(action) \subseteq Range(action.Candidates))

\* C28: registry load rejects with an error every document holding an
\* action whose template key set is not a subset of its candidate list, so
\* every action of a catalogue that loaded has its template keys among its
\* candidates.
C28_LoadRejectsForeignTemplate ==
    loaded.done =>
        /\ (\E i \in 1..Len(doc.actions) : HasForeignTemplate(doc.actions[i])) => loaded.err
        /\ ~loaded.err => \A i \in 1..Len(loaded.Actions) : ~HasForeignTemplate(loaded.Actions[i])

\* C29: a run started with an action name that matches no action's id,
\* title or synonym, whatever the case of the letters, ends with exit code 1,
\* a diagnostic on stderr, nothing on stdout and no form opened; started
\* with a name that matches, it opens the form of the first matching action
\* of the catalogue, without the palette.
C29_ActionNameResolved ==
    arg # "" =>
        IF MatchAction(Registry, arg) = 0
        THEN /\ pc = "exit" /\ m = NoModel
             /\ stdio.code = 1 /\ stdio.err # <<>> /\ stdio.out = <<>>
        ELSE /\ pc = "form" /\ m.form = "action"
             /\ m.action = Registry[MatchAction(Registry, arg)]

C31_LastWriterWins ==
    (wrote.by # 0 /\ \A i \in Instances : inst[i].pc # "saving") => prefFile = wrote.data

\* C32: when the rc file exists but cannot be read, or cannot be written,
\* install and uninstall return an error and leave the rc file as it was;
\* an existing file that cannot be read is never taken for an empty one and
\* overwritten.
C32_FaultsSurfacedFileKept ==
    \A i \in 1..Len(hist) :
        /\ (hist[i].pre # <<>> /\ hist[i].reading = "read fails")
              => (hist[i].err /\ hist[i].post = hist[i].pre)
        /\ (hist[i].pre # <<>> /\ hist[i].reading = "read"
              /\ hist[i].writing # "written"
              /\ ToggleShellIntegration(hist[i].pre, IF hist[i].op = "install" THEN "true" ELSE "false").wrote)
              => (hist[i].err /\ hist[i].post = hist[i].pre)

\* the text holds the part
HasPart(text, part) ==
    \E i \in 1..(Len(text) + 1) :
        /\ i + Len(part) - 1 <= Len(text)
        /\ SubSeq(text, i, i + Len(part) - 1) = part

\* the name of the tool a command is built for
NameOfTool(tool) == IF tool \in {"rg", "grep"} THEN tool ELSE "awk"

\* the arguments of a command that stand before its first quoted one
ArgsBeforeQuote(cmd) ==
    IF \E i \in 1..Len(cmd) : cmd[i] = "'"
    THEN SubSeq(cmd, 1, (CHOOSE i \in 1..Len(cmd) :
                            cmd[i] = "'" /\ \A j \in 1..(i - 1) : cmd[j] # "'") - 1)
    ELSE cmd

EnumChoices(mm, e) == enumItems(mm.action)[e].Choices

\* 0-based list row of enum item e
EnumRow(mm, e) == Len(mm.boolVal) + Len(mm.intVal) + Len(mm.floatVal) + e - 1

\* "enter" n times on the row the cursor is on
RECURSIVE EnterTimes(_, _)
EnterTimes(mm, n) == IF n = 0 THEN mm ELSE EnterTimes(EnterRow(mm), n - 1)

\* C34: for an enum field with choices, the index is always one of the
\* positions of the choices; "enter" on the enum's row takes index i to
\* (i + 1) mod the number of choices; and as many cycles as there are
\* choices bring the index back to where it was.
C34_EnumIndexCycles ==
    /\ [](pc = "form" =>
            \A e \in 1..Len(m.enumIdx) :
                Len(EnumChoices(m, e)) > 0 =>
                    /\ m.enumIdx[e] \in 0..(Len(EnumChoices(m, e)) - 1)
                    /\ (m.focus = "" /\ m.listIdx = EnumRow(m, e)) =>
                          EnterTimes(m, Len(EnumChoices(m, e))).enumIdx[e] = m.enumIdx[e])
    /\ [][(pc = "form" /\ FormEnter) =>
            \A e \in 1..Len(m.enumIdx) :
                (Len(EnumChoices(m, e)) > 0 /\ m.focus = "" /\ m.listIdx = EnumRow(m, e)) =>
                    m'.enumIdx[e] = (m.enumIdx[e] + 1) % Len(EnumChoices(m, e))]_vars

\* the enum of the Pack form after one cycle from its default, the last of
\* its choices: the index has wrapped to the first
C34_Witness ==
    /\ pc = "form" /\ m.action.Title = "Pack"
    /\ m.focus = "" /\ m.listIdx = EnumRow(m, 1)
    /\ m.enumIdx[1] = 0
    /\ nkeys = 3

\* 0-based list row of int item i of the action form
IntRow(mm, i) == Len(mm.boolVal) + i - 1

\* the cursor of the action form is on an int field that declares no minimum
OnIntWithoutMin(mm, i) ==
    /\ mm.listIdx = IntRow(mm, i)
    /\ intItems(mm.action)[i].Min = <<>>

\* C35: an int field that declares no minimum, and the context lines of the
\* search form, are clamped at 0 from below: after a '+' or a '-' on the
\* field its value is at least 0, and a '-' at 0 leaves it at 0.
C35_ClampedAtZero ==
    [][/\ (pc = "form" /\ (FormPlus \/ FormMinus)) =>
            \A i \in 1..Len(m.intVal) :
                OnIntWithoutMin(m, i) =>
                    /\ m'.intVal[i] >= 0
                    /\ (FormMinus /\ m.intVal[i] = 0) => m'.intVal[i] = 0
       /\ (pc = "search" /\ (SearchKeyPlus \/ SearchKeyMinus) /\ m.listIdx = 5) =>
            /\ m'.intVal[1] >= 0
            /\ (SearchKeyMinus /\ m.intVal[1] = 0) => m'.intVal[1] = 0]_vars

\* the forms a "tab" may leave behind
TabOutcomes(mm) == {Tab(mm, next) : next \in TabTargets(mm)}

\* C36: "tab" is deterministic: from one state of the action form with a
\* text input focused, it always moves the focus to the same field.
C36_TabDeterministic ==
    (pc = "form" /\ m.focus # "") => Cardinality(TabOutcomes(m)) = 1

\* tokens i..j of the template are a quoted literal: a quote, text that is
\* neither a quote nor a delimiter, a quote
QuotedLiteral(text, i, j) ==
    /\ i < j /\ text[i] = "'" /\ text[j] = "'"
    /\ \A n \in (i + 1)..(j - 1) : text[n] \notin {"'", "{{", "}}"}
    /\ Cardinality({n \in 1..(i - 1) : text[n] = "'"}) % 2 = 0
    /\ \A n \in 1..(i - 1) : text[n] # "{{"

\* C37: the white space inside a quoted literal of the template is carried
\* into the command unchanged; only white space outside quoted regions is
\* collapsed.
C37_QuotedWhitespaceKept ==
    out.done =>
        \A i \in 1..Len(tmpl), j \in 1..Len(tmpl) :
            QuotedLiteral(tmpl, i, j) => HasPart(out.cmd, SubSeq(tmpl, i, j))

\* C38: in every state of the action form and of the search form the tool
\* list is not empty and the selected tool index is a position of it; and
\* "ctrl+t" takes the index to (index + 1) mod the number of tools.
C38_ToolIndexInRange ==
    /\ [](pc \in {"form", "search"} =>
            /\ Len(m.tools) > 0
            /\ m.toolIdx \in 0..(Len(m.tools) - 1))
    /\ [][((pc = "form" /\ FormCtrlT) \/ (pc = "search" /\ SearchCtrlT)) =>
            m'.toolIdx = (m.toolIdx + 1) % Len(m.tools)]_vars

\* the values of the list rows of a form, in row order
Cells(mm) ==
    [i \in 1..Len(mm.boolVal) |-> BoolVal(mm.boolVal[i])]
        \o [i \in 1..Len(mm.intVal) |-> IntVal(mm.intVal[i])]
        \o [i \in 1..Len(mm.floatVal) |-> FloatVal(mm.floatVal[i])]
        \o [i \in 1..Len(mm.enumIdx) |-> IntVal(mm.enumIdx[i])]

\* the two forms differ in nothing but the value of the given 0-based row
OnlyRowChanged(before, after, row) ==
    /\ \A r \in 1..Len(Cells(before)) : r # row + 1 => Cells(after)[r] = Cells(before)[r]
    /\ after.tools = before.tools
    /\ after.toolIdx = before.toolIdx

\* C39: a mutation of the action form changes only the cell it addresses:
\* a bool toggle, an int or float adjust and an enum cycle on the selected
\* row leave the value of every other field, the tool list and the selected
\* tool as they were, and "ctrl+t" leaves the value of every field as it was.
C39_OnlyAddressedCellChanges ==
    [][pc = "form" =>
         /\ ((FormPlus \/ FormMinus \/ FormEnter) /\ Cells(m') # Cells(m)) =>
               /\ OnlyRowChanged(m, m', m.listIdx)
               /\ HandedTo(m') = ""
         /\ FormCtrlT => Cells(m') = Cells(m)]_vars

\* C40: while a text input has the focus, a '+', '-' or '_' key event only
\* edits that input: no int or float field of the action form changes, nor
\* the context lines of the search form, whatever row is selected.
C40_FocusedTextTakesKeyAlone ==
    [][(/\ m.focus # ""
        /\ \/ pc = "form" /\ (FormPlus \/ FormMinus)
           \/ pc = "search" /\ (SearchKeyPlus \/ SearchKeyMinus)) =>
          /\ m'.intVal = m.intVal
          /\ m'.floatVal = m.floatVal]_vars
=============================================================================
